---- MODULE Spec2Model ----
(***************************************************************************)
(* A model of the recommendation engine of The Stylist:                    *)
(*   services/recommendation_service.py  (RecommendationService)           *)
(*   services/style_analysis_service.py  (StyleAnalysisService)            *)
(*                                                                         *)
(* Floats are modelled in fixed point with four decimals (SCALE = 10^4);   *)
(* strings are TLA+ strings, lower-casing and substring tests are tables   *)
(* over the vocabulary used by the inputs.  A profile key "<dim>_<value>"  *)
(* is the pair <<dim, value>>.                                             *)
(***************************************************************************)
EXTENDS Integers, Sequences, FiniteSets, TLC

VARIABLES catalog, hashOrder, maxRec, pc, result

vars == <<catalog, hashOrder, maxRec, pc, result>>

-----------------------------------------------------------------------------
(* Fixed point arithmetic                                                  *)

SCALE == 100 * 100

Fx(tenths) == tenths * (SCALE \div 10)

Mul(a, b) == (a * b) \div SCALE

Min(a, b) == IF a < b THEN a ELSE b

Max(a, b) == IF a > b THEN a ELSE b

Range(s) == {s[i] : i \in 1..Len(s)}

RECURSIVE SumSeq(_)
SumSeq(s) == IF s = <<>> THEN 0 ELSE Head(s) + SumSeq(Tail(s))

\* Python's seq[:n], n possibly negative
Slice(s, n) ==
  IF n >= 0 THEN SubSeq(s, 1, Min(n, Len(s)))
  ELSE SubSeq(s, 1, Max(Len(s) + n, 0))

\* order-preserving removal of repeated elements (first occurrence wins)
RECURSIVE Dedupe(_)
Dedupe(s) ==
  IF s = <<>> THEN <<>>
  ELSE LET r == Dedupe(SubSeq(s, 1, Len(s) - 1))
           x == s[Len(s)]
       IN IF x \in Range(r) THEN r ELSE Append(r, x)

\* sorted(pairs, key=lambda x: x[1], reverse=True): stable, descending
RECURSIVE InsertDesc(_, _)
InsertDesc(sorted, p) ==
  IF sorted = <<>> THEN <<p>>
  ELSE IF Head(sorted)[2] >= p[2]
       THEN <<Head(sorted)>> \o InsertDesc(Tail(sorted), p)
       ELSE <<p>> \o sorted

RECURSIVE SortDesc(_)
SortDesc(pairs) ==
  IF pairs = <<>> THEN <<>>
  ELSE InsertDesc(SortDesc(SubSeq(pairs, 1, Len(pairs) - 1)), pairs[Len(pairs)])

-----------------------------------------------------------------------------
(* str.lower() over the vocabulary                                         *)

LowerTable ==
  [s \in {"Red", "Casual", "Formal", "Solid", "Everyday Casual", "Zara", "Tops",
          "Levis", "MINIMALIST", "SPORTY", "NEUTRALS", "FITTED", "CASUAL",
          "FORMAL", "Plaid", "ZARA", "Dresses"} |->
     CASE s = "Red" -> "red"
       [] s = "ZARA" -> "zara"
       [] s = "Dresses" -> "dresses"
       [] s = "Plaid" -> "plaid"
       [] s = "Zara" -> "zara"
       [] s = "Tops" -> "tops"
       [] s = "Levis" -> "levis"
       [] s = "MINIMALIST" -> "minimalist"
       [] s = "SPORTY" -> "sporty"
       [] s = "NEUTRALS" -> "neutrals"
       [] s = "FITTED" -> "fitted"
       [] s = "CASUAL" -> "casual"
       [] s = "FORMAL" -> "formal"
       [] s = "Casual" -> "casual"
       [] s = "Formal" -> "formal"
       [] s = "Solid" -> "solid"
       [] s = "Everyday Casual" -> "everyday casual"]

Lower(s) == IF s \in DOMAIN LowerTable THEN LowerTable[s] ELSE s

LowerAll(s) == [i \in 1..Len(s) |-> Lower(s[i])]

-----------------------------------------------------------------------------
(* Compatibility rules                                                     *)

PATTERN_CLASH_RULES ==
  [p \in {"stripes", "plaid", "polka", "floral", "animal", "camo",
          "tropical", "geometric", "busy"} |->
     CASE p = "stripes" -> {"plaid", "polka", "busy", "geometric"}
       [] p = "plaid" -> {"stripes", "polka", "floral", "busy", "geometric"}
       [] p = "polka" -> {"stripes", "plaid", "busy", "geometric"}
       [] p = "floral" -> {"plaid", "busy", "geometric", "animal"}
       [] p = "animal" -> {"floral", "busy", "geometric", "tropical"}
       [] p = "camo" -> {"animal", "plaid", "tropical"}
       [] p = "tropical" -> {"plaid", "animal", "camo", "busy"}
       [] p = "geometric" -> {"stripes", "plaid", "polka", "floral", "busy"}
       [] p = "busy" -> {"stripes", "plaid", "polka", "floral", "geometric",
                         "tropical", "animal"}]

PATTERN_COMPLEMENT_RULES ==
  [p \in {"solid", "minimal", "striped", "textured"} |->
     CASE p = "solid" -> {"stripes", "plaid", "polka", "floral", "animal",
                          "camo", "tropical", "geometric"}
       [] p = "minimal" -> {"stripes", "plaid", "polka", "floral", "animal",
                            "geometric"}
       [] p = "striped" -> {"solid", "minimal"}
       [] p = "textured" -> {"solid", "minimal"}]

\* a check that looks the clash up under the first pattern only
PatternsCompatibleOneWay(pattern1, pattern2) ==
  LET p1 == Lower(IF pattern1 = "" THEN "solid" ELSE pattern1)
      p2 == Lower(IF pattern2 = "" THEN "solid" ELSE pattern2)
  IN IF p1 = p2
     THEN IF p1 \in {"busy", "geometric", "plaid"}
          THEN [ok |-> FALSE, score |-> Fx(2)]
          ELSE [ok |-> TRUE, score |-> Fx(7)]
     ELSE IF p1 = "solid" \/ p2 = "solid"
     THEN [ok |-> TRUE, score |-> Fx(10)]
     ELSE IF \E b \in DOMAIN PATTERN_COMPLEMENT_RULES :
               \/ (p1 = b /\ p2 \in PATTERN_COMPLEMENT_RULES[b])
               \/ (p2 = b /\ p1 \in PATTERN_COMPLEMENT_RULES[b])
     THEN [ok |-> TRUE, score |-> Fx(9)]
     ELSE IF p1 \in DOMAIN PATTERN_CLASH_RULES /\ p2 \in PATTERN_CLASH_RULES[p1]
     THEN [ok |-> FALSE, score |-> 0]
     ELSE [ok |-> TRUE, score |-> Fx(5)]

\* a missing pattern (None or "") is modelled as ""
are_patterns_compatible(pattern1, pattern2) ==
  LET p1 == Lower(IF pattern1 = "" THEN "solid" ELSE pattern1)
      p2 == Lower(IF pattern2 = "" THEN "solid" ELSE pattern2)
  IN IF p1 = p2
     THEN IF p1 \in {"busy", "geometric", "plaid"}
          THEN [ok |-> FALSE, score |-> Fx(2)]
          ELSE [ok |-> TRUE, score |-> Fx(7)]
     ELSE IF p1 = "solid" \/ p2 = "solid"
     THEN [ok |-> TRUE, score |-> Fx(10)]
     ELSE IF \E b \in DOMAIN PATTERN_COMPLEMENT_RULES :
               \/ (p1 = b /\ p2 \in PATTERN_COMPLEMENT_RULES[b])
               \/ (p2 = b /\ p1 \in PATTERN_COMPLEMENT_RULES[b])
     THEN [ok |-> TRUE, score |-> Fx(9)]
     ELSE IF p1 \in DOMAIN PATTERN_CLASH_RULES /\ p2 \in PATTERN_CLASH_RULES[p1]
     THEN [ok |-> FALSE, score |-> 0]
     ELSE IF p2 \in DOMAIN PATTERN_CLASH_RULES /\ p1 \in PATTERN_CLASH_RULES[p2]
     THEN [ok |-> FALSE, score |-> 0]
     ELSE [ok |-> TRUE, score |-> Fx(5)]

neutral_colors == {"black", "white", "gray", "beige", "tan", "cream", "navy"}

complementary_pairs ==
  { <<{"blue"}, {"orange", "brown"}>>,
    <<{"red"}, {"green"}>>,
    <<{"yellow"}, {"purple"}>>,
    <<{"pink"}, {"olive", "green"}>> }

color_families ==
  { {"blue", "lightblue", "navy", "skyblue", "teal", "cyan"},
    {"red", "maroon", "crimson", "burgundy", "pink"},
    {"green", "olive", "lime", "forest", "mint", "emerald"},
    {"purple", "lavender", "violet", "plum", "mauve"},
    {"yellow", "gold", "mustard", "amber"},
    {"orange", "peach", "coral", "salmon"},
    {"brown", "tan", "beige", "khaki", "camel"},
    {"gray", "silver", "charcoal"} }

\* a check that reads each complementary pair in one direction only
ColorsCompatibleOneWay(colors1, colors2) ==
  LET c1 == Range(LowerAll(colors1))
      c2 == Range(LowerAll(colors2))
  IN \/ c1 \cap neutral_colors # {}
     \/ c2 \cap neutral_colors # {}
     \/ \E pr \in complementary_pairs :
          c1 \cap pr[1] # {} /\ c2 \cap pr[2] # {}
     \/ \E fam \in color_families : c1 \cap fam # {} /\ c2 \cap fam # {}

are_colors_compatible(colors1, colors2) ==
  LET c1 == Range(LowerAll(colors1))
      c2 == Range(LowerAll(colors2))
  IN \/ c1 \cap neutral_colors # {}
     \/ c2 \cap neutral_colors # {}
     \/ \E pr \in complementary_pairs :
          \/ (c1 \cap pr[1] # {} /\ c2 \cap pr[2] # {})
          \/ (c1 \cap pr[2] # {} /\ c2 \cap pr[1] # {})
     \/ \E fam \in color_families : c1 \cap fam # {} /\ c2 \cap fam # {}

-----------------------------------------------------------------------------
(* Substring and word tables ("a in b", b.split()) over the vocabulary     *)

SubstrOf ==
  [b \in {"tailored jacket", "tailored formal blazer look", "black jacket",
          "polka dot", "tailored", "tailored elegant"} |->
     CASE b = "tailored jacket" -> {"jacket", "red", "tailored"}
       [] b = "tailored" -> {"red"}
       [] b = "tailored elegant" -> {"elegant", "red", "tailored"}
       [] b = "tailored formal blazer look" -> {"blazer", "formal", "red", "tailored"}
       [] b = "black jacket" -> {"black", "jacket"}
       [] b = "polka dot" -> {"polka"}]

\* a in b
Substr(a, b) == a = b \/ (b \in DOMAIN SubstrOf /\ a \in SubstrOf[b])

WordsTable ==
  [t \in {"tailored jacket"} |-> {"tailored", "jacket"}]

\* set(t.split())
Words(t) == IF t \in DOMAIN WordsTable THEN WordsTable[t] ELSE {t}

-----------------------------------------------------------------------------
(* Social proof matcher                                                    *)

garment_keywords ==
  <<"dress", "gown", "suit", "blazer", "jacket", "pants", "trousers", "skirt",
    "shirt", "blouse", "sweater", "coat", "shoes", "boots", "heels",
    "sneakers", "bag", "handbag", "clutch", "scarf", "hat", "top", "jeans",
    "shorts", "jumpsuit", "cardigan", "t-shirt", "tee", "tank", "camisole",
    "hoodie", "turtleneck", "tunic", "leggings", "culottes", "chinos",
    "joggers", "sweatpants", "maxi", "mini", "midi", "slip", "bodycon",
    "a-line", "shift", "wrap", "cocktail", "sheath", "sundress", "shirtdress",
    "romper", "trench", "parka", "peacoat", "denim", "leather", "bomber",
    "windbreaker", "cape", "poncho", "raincoat", "overcoat", "puffer", "flats",
    "loafers", "pumps", "ankle boots", "knee-high", "combat", "stilettos",
    "mules", "clogs", "wedges", "espadrilles", "oxfords", "slippers",
    "platforms", "purse", "tote", "backpack", "satchel", "crossbody",
    "shoulder bag">>

style_indicators ==
  {"casual", "formal", "elegant", "chic", "minimalist", "bold", "classic",
   "vintage", "retro", "preppy", "bohemian", "boho", "edgy", "streetwear",
   "glamorous", "sporty", "athleisure", "business", "professional",
   "feminine", "masculine", "androgynous", "romantic", "punk", "grunge",
   "hip-hop", "sophisticated", "trendy", "timeless", "modern", "contemporary",
   "urban", "festival", "party", "lounge", "vacation", "resort", "beach",
   "office", "workwear", "cocktail", "evening", "black tie"}

fit_keywords ==
  {"a-line", "baggy", "bodycon", "bootcut", "boxy", "cropped", "drop-waist",
   "empire", "fitted", "flared", "high-waisted", "loose", "low-rise",
   "oversized", "pencil", "peplum", "relaxed", "skinny", "slim",
   "straight-leg", "structured", "tailored", "tight", "unstructured",
   "wide-leg"}

color_keywords ==
  {"black", "white", "red", "blue", "green", "yellow", "purple", "pink",
   "gray", "grey", "brown", "tan", "beige", "cream", "ivory", "navy", "teal",
   "burgundy", "maroon", "gold", "silver", "orange"}

pattern_keywords ==
  <<"striped", "stripes", "plaid", "checked", "checkered", "polka dot",
    "floral", "animal print", "leopard", "zebra", "snake", "geometric",
    "abstract", "solid", "plain", "textured", "embroidered", "sequined",
    "beaded">>

basic_categories ==
  [c \in {"tops", "bottoms", "dresses", "outerwear", "shoes", "accessories"} |->
     CASE c = "tops" -> {"top", "shirt", "blouse", "t-shirt", "tee", "sweater"}
       [] c = "bottoms" -> {"pants", "jeans", "skirt", "shorts", "trousers"}
       [] c = "dresses" -> {"dress", "gown", "jumpsuit"}
       [] c = "outerwear" -> {"jacket", "coat", "blazer", "cardigan"}
       [] c = "shoes" -> {"shoes", "boots", "heels", "sandals", "sneakers"}
       [] c = "accessories" -> {"bag", "purse", "handbag", "jewelry", "scarf", "hat"}]

similar_color_pairs ==
  { <<{"navy", "dark blue"}, {"blue"}>>,
    <<{"beige", "tan", "khaki"}, {"cream", "sand", "stone"}>>,
    <<{"burgundy", "maroon", "wine"}, {"red", "crimson"}>>,
    <<{"gray", "grey"}, {"silver", "charcoal"}>>,
    <<{"forest green", "hunter green"}, {"green", "olive"}>> }

sp_neutral_colors == {"black", "white", "gray", "grey", "beige", "navy"}

pattern_categories ==
  { {"striped", "stripes", "pinstripe", "pinstriped"},
    {"plaid", "checked", "checkered", "tartan"},
    {"animal", "leopard", "zebra", "snake", "cheetah", "tiger"},
    {"floral", "flower", "botanical", "tropical"},
    {"polka dot", "polka", "dotted", "spots"},
    {"geometric", "abstract", "graphic"},
    {"embroidered", "embroidery", "needlework"},
    {"sequined", "sequin", "sequins", "beaded", "embellished"} }

complementary_fits ==
  { {"oversized", "baggy", "loose", "relaxed", "boyfriend"},
    {"fitted", "slim", "skinny", "tight", "bodycon"},
    {"structured", "tailored"},
    {"cropped", "high-waisted"},
    {"flared", "wide-leg", "bootcut"},
    {"straight-leg", "classic", "regular"} }

complementary_styles ==
  { {"casual", "relaxed", "comfortable", "everyday", "lounge"},
    {"formal", "elegant", "sophisticated", "dressy", "black tie", "cocktail",
     "evening"},
    {"minimalist", "clean", "simple", "streamlined"},
    {"vintage", "retro", "classic", "timeless"},
    {"bohemian", "boho", "free-spirited", "eclectic"},
    {"edgy", "punk", "grunge", "rock", "alternative"},
    {"sporty", "athleisure", "active", "athletic"},
    {"streetwear", "urban", "hip-hop", "street style"},
    {"professional", "business", "workwear", "office"},
    {"trendy", "fashion-forward", "contemporary", "modern"} }

\* the elif chain of the garment loop for one garment: 0 when no branch fires
GarmentBranch(g, cat) ==
  IF g \in {"boots", "heels", "sneakers", "flats", "loafers", "pumps",
            "stilettos", "mules", "clogs", "wedges", "espadrilles", "oxfords",
            "slippers", "platforms"} /\ cat = "shoes" THEN Fx(8)
  ELSE IF g \in {"blouse", "t-shirt", "tee", "tank", "camisole", "hoodie",
                 "turtleneck", "tunic"} /\ cat = "tops" THEN Fx(8)
  ELSE IF g \in {"trousers", "culottes", "chinos", "joggers", "sweatpants"}
          /\ cat = "pants" THEN Fx(8)
  ELSE IF g \in {"gown", "maxi", "mini", "midi", "slip", "bodycon", "a-line",
                 "shift", "wrap", "cocktail", "sheath", "sundress",
                 "shirtdress"} /\ cat = "dresses" THEN Fx(8)
  ELSE IF g \in {"blazer", "trench", "parka", "peacoat", "bomber",
                 "windbreaker", "cape", "poncho", "raincoat", "overcoat",
                 "puffer"} /\ cat = "outerwear" THEN Fx(8)
  ELSE IF g \in {"clutch", "purse", "tote", "backpack", "satchel", "crossbody",
                 "shoulder bag"} /\ cat = "bags" THEN Fx(8)
  ELSE IF \/ (g \in {"top", "shirt", "sweater", "blouse", "t-shirt", "tee"}
              /\ cat \in {"tops", "shirts", "t-shirts", "blouses", "sweaters"})
          \/ (g \in {"pants", "bottoms", "jeans", "skirt", "shorts"}
              /\ cat \in {"bottoms", "pants", "jeans", "skirts", "shorts"})
          \/ (g \in {"dress", "gown"} /\ cat \in {"dresses"})
          \/ (g \in {"jacket", "coat", "blazer"}
              /\ cat \in {"outerwear", "jackets", "coats", "blazers"})
          \/ (g \in {"shoes", "footwear", "boots", "heels"}
              /\ cat \in {"shoes", "footwear"})
       THEN Fx(6)
  ELSE 0

\* garment_types: for each tag in order, each keyword (in list order) found in it
RECURSIVE GarmentTypes(_)
GarmentTypes(tags) ==
  IF tags = <<>> THEN <<>>
  ELSE SelectSeq(garment_keywords, LAMBDA k : Substr(k, Lower(Head(tags))))
       \o GarmentTypes(Tail(tags))

\* the garment loop: the first garment for which some branch fires decides
RECURSIVE GarmentLoop(_, _, _)
GarmentLoop(garments, cat, sub) ==
  IF garments = <<>> THEN 0
  ELSE LET g == Head(garments)
       IN IF g = cat \/ g = sub THEN Fx(10)
          ELSE IF GarmentBranch(g, cat) > 0 THEN GarmentBranch(g, cat)
          ELSE GarmentLoop(Tail(garments), cat, sub)

SPGarment(item, sp) ==
  IF sp.outfit_tags = <<>> THEN 0
  ELSE LET cat == Lower(item.category)
           sub == Lower(item.subcategory)
           direct == GarmentLoop(GarmentTypes(sp.outfit_tags), cat, sub)
           desc == Lower(sp.outfit_description)
       IN IF direct = 0 /\ sp.outfit_description # ""
             /\ \E c \in DOMAIN basic_categories :
                  /\ \E k \in basic_categories[c] : Substr(k, desc)
                  /\ \/ c = cat
                     \/ (sub # "" /\ \E k \in basic_categories[c] : Substr(k, sub))
          THEN Fx(5)
          ELSE direct

SPColor(item, sp) ==
  IF item.colors = <<>> THEN 0
  ELSE LET desc == Lower(sp.outfit_description)
           celebrity_colors ==
             IF sp.colors # <<>> THEN Range(LowerAll(sp.colors))
             ELSE IF sp.outfit_description # ""
                  THEN {c \in color_keywords : Substr(c, desc)}
                  ELSE {}
           item_colors == Range(LowerAll(item.colors))
           color_matches == celebrity_colors \cap item_colors
       IN IF celebrity_colors # {}
          THEN IF color_matches # {}
               THEN (Cardinality(color_matches) * SCALE)
                      \div Cardinality(celebrity_colors)
               ELSE IF \E pr \in similar_color_pairs :
                         \/ (celebrity_colors \cap pr[1] # {} /\ item_colors \cap pr[2] # {})
                         \/ (celebrity_colors \cap pr[2] # {} /\ item_colors \cap pr[1] # {})
                    THEN Fx(5)
                    ELSE IF item_colors \cap sp_neutral_colors # {} THEN Fx(3)
                    ELSE 0
          ELSE IF item_colors \cap sp_neutral_colors # {} THEN Fx(3) ELSE 0

SPPattern(item, sp) ==
  IF item.pattern = "" THEN 0
  ELSE LET desc == Lower(sp.outfit_description)
           celebrity_patterns ==
             IF sp.patterns # <<>> THEN Range(LowerAll(sp.patterns))
             ELSE IF sp.outfit_description # ""
                  THEN {p \in Range(pattern_keywords) : Substr(p, desc)}
                  ELSE {}
           item_pattern == Lower(item.pattern)
       IN IF celebrity_patterns # {}
          THEN IF item_pattern \in celebrity_patterns THEN Fx(10)
               ELSE IF \E p \in celebrity_patterns :
                         Substr(p, item_pattern) \/ Substr(item_pattern, p)
                    THEN Fx(7)
               ELSE IF \E category \in pattern_categories :
                         /\ \E p \in celebrity_patterns :
                              \E cat_pat \in category : Substr(cat_pat, p)
                         /\ \E cat_pat \in category : Substr(cat_pat, item_pattern)
                    THEN Fx(6)
               ELSE 0
          ELSE IF item_pattern \in {"solid", "plain"} THEN Fx(3) ELSE 0

SPSilhouette(item, sp) ==
  LET item_fit == Lower(item.fit_type)
      item_fit_indicators == {t \in Range(item.style_tags) : Lower(t) \in fit_keywords}
      desc == Lower(sp.outfit_description)
      celebrity_fit_indicators ==
        UNION {Words(Lower(sp.outfit_tags[i])) \cap fit_keywords :
                 i \in 1..Len(sp.outfit_tags)}
        \cup (IF sp.outfit_description # ""
              THEN {k \in fit_keywords : Substr(k, desc)} ELSE {})
  IN IF celebrity_fit_indicators # {} /\ (item_fit # "" \/ item_fit_indicators # {})
     THEN IF item_fit # "" /\ item_fit \in celebrity_fit_indicators THEN Fx(10)
          ELSE IF item_fit_indicators \cap celebrity_fit_indicators # {} THEN Fx(8)
          ELSE IF \E group \in complementary_fits :
                    /\ celebrity_fit_indicators \cap group # {}
                    /\ \/ item_fit_indicators \cap group # {}
                       \/ (item_fit # "" /\ item_fit \in group)
               THEN Fx(7)
          ELSE 0
     ELSE 0

\* style keywords mined from the description and the tags
SPStyleKeywords(sp) ==
  (IF sp.outfit_description # ""
   THEN {s \in style_indicators : Substr(s, Lower(sp.outfit_description))}
   ELSE {})
  \cup UNION {{s \in style_indicators : Substr(s, Lower(sp.outfit_tags[i]))} :
                i \in 1..Len(sp.outfit_tags)}

SPStyle(item, sp) ==
  IF item.style_tags = <<>> THEN 0
  ELSE LET style_keywords == SPStyleKeywords(sp)
           item_styles == Range(LowerAll(item.style_tags))
           style_matches == style_keywords \cap item_styles
       IN IF style_matches # {}
          THEN (Cardinality(style_matches) * SCALE)
                 \div Max(Cardinality(style_keywords), 1)
          ELSE IF \E group \in complementary_styles :
                    style_keywords \cap group # {} /\ item_styles \cap group # {}
               THEN Fx(6)
          ELSE 0

\* style_indicators is bound only inside "if social_proof.outfit_description";
\* the loop over outfit_tags reads it unconditionally
SPRaises(sp) ==
  sp.celebrity # "" /\ sp.outfit_description = "" /\ sp.outfit_tags # <<>>

SPWeighted(item, sp) ==
  Mul(SPGarment(item, sp), 3000) + Mul(SPColor(item, sp), 2500)
  + Mul(SPPattern(item, sp), 1500) + Mul(SPSilhouette(item, sp), 1500)
  + Mul(SPStyle(item, sp), 1500)

\* "return final_score if final_score > 0.4 else 0.0"
SPCutoff(final_score) == IF final_score > Fx(4) THEN final_score ELSE 0

\* the value returned when the call does not raise
calculate_social_proof_match(item, sp) ==
  IF sp.celebrity = "" THEN 0 ELSE SPCutoff(SPWeighted(item, sp))

-----------------------------------------------------------------------------
(* Item match scorer                                                       *)

WEIGHTS ==
  [style_match |-> 3500, color_match |-> 2000, fit_match |-> 1500,
   occasion_match |-> 2000, trending_bonus |-> 500,
   retailer_availability |-> 500]

\* "key in profile and profile[key] ..." : an absent key reads as 0
PGet(profile, key) == IF key \in DOMAIN profile THEN profile[key] ELSE 0

\* the social_proof_match attribute of an item; has = FALSE when the item
\* has no such attribute
NoSPM ==
  [has |-> FALSE, celebrity |-> "", match_score |-> 0,
   has_event |-> FALSE, event |-> ""]

NoCtx ==
  [present |-> FALSE, celebrity |-> "", event |-> "", outfit_description |-> "",
   outfit_tags |-> <<>>, patterns |-> <<>>, colors |-> <<>>]

\* "celebrity in reason"
ReasonMentions(r, celebrity) == Substr(celebrity, r[2])

RECURSIVE StyleLoop(_, _)
StyleLoop(tags, profile) ==
  IF tags = <<>> THEN [sum |-> 0, reasons |-> <<>>]
  ELSE LET t == Head(tags)
           rest == StyleLoop(Tail(tags), profile)
           s == PGet(profile, <<"style", Lower(t)>>)
           l == PGet(profile, <<"liked_tag", Lower(t)>>)
       IN [sum |-> (IF s > 0 THEN s ELSE 0) + (IF l > 0 THEN l ELSE 0) + rest.sum,
           reasons |-> (IF s > 0 THEN <<(<<"style_pref", t>>)>> ELSE <<>>)
                       \o (IF l > 0 THEN <<(<<"liked_similar", "">>)>> ELSE <<>>)
                       \o rest.reasons]

RECURSIVE ColorLoop(_, _)
ColorLoop(colors, profile) ==
  IF colors = <<>> THEN [sum |-> 0, reasons |-> <<>>]
  ELSE LET c == Head(colors)
           rest == ColorLoop(Tail(colors), profile)
           s == PGet(profile, <<"color", Lower(c)>>)
           l == PGet(profile, <<"liked_color", Lower(c)>>)
       IN [sum |-> (IF s > 0 THEN s ELSE 0) + (IF l > 0 THEN l ELSE 0) + rest.sum,
           reasons |-> (IF s > 0 THEN <<(<<"color_pref", c>>)>> ELSE <<>>)
                       \o (IF l > 0 THEN <<(<<"liked_color", "">>)>> ELSE <<>>)
                       \o rest.reasons]

RECURSIVE OccasionLoop(_, _)
OccasionLoop(occs, profile) ==
  IF occs = <<>> THEN [sum |-> 0, reasons |-> <<>>]
  ELSE LET o == Head(occs)
           rest == OccasionLoop(Tail(occs), profile)
           s == PGet(profile, <<"occasion", Lower(o)>>)
       IN [sum |-> (IF s > 0 THEN s ELSE 0) + rest.sum,
           reasons |-> (IF s > 0 THEN <<(<<"occasion", o>>)>> ELSE <<>>)
                       \o rest.reasons]

FitPart(item, profile) ==
  IF item.fit_type = "" THEN [score |-> 0, reasons |-> <<>>]
  ELSE LET key == IF Lower(item.category) \in {"tops", "shirts", "t-shirts"}
                  THEN <<"top_fit", Lower(item.fit_type)>>
                  ELSE <<"bottom_fit", Lower(item.fit_type)>>
       IN IF PGet(profile, key) > 0
          THEN [score |-> profile[key], reasons |-> <<(<<"fit_pref", item.fit_type>>)>>]
          ELSE [score |-> 0, reasons |-> <<>>]

PatternPart(item, profile) ==
  IF item.pattern = "" THEN [score |-> Fx(7), reasons |-> <<>>]
  ELSE LET p == Lower(item.pattern)
       IN IF PGet(profile, <<"liked_pattern", p>>) > 0
          THEN [score |-> profile[<<"liked_pattern", p>>],
                reasons |-> <<(<<"pattern_preferred", item.pattern>>)>>]
          ELSE IF PGet(profile, <<"pattern", p>>) > 0
          THEN [score |-> profile[<<"pattern", p>>],
                reasons |-> <<(<<"pattern_suits", item.pattern>>)>>]
          ELSE IF PGet(profile, <<"preferred_pattern", p>>) > 0
          THEN [score |-> profile[<<"preferred_pattern", p>>],
                reasons |-> <<(<<"pattern_preferred", item.pattern>>)>>]
          ELSE IF p = "solid"
          THEN [score |-> Fx(8), reasons |-> <<(<<"solid_versatile", "">>)>>]
          ELSE [score |-> Fx(5), reasons |-> <<>>]

\* a veto that forgets the pattern
VetoedTagsAndColors(item, profile) ==
  \/ \E i \in 1..Len(item.style_tags) :
       PGet(profile, <<"disliked_tag", Lower(item.style_tags[i])>>) < 0
  \/ \E i \in 1..Len(item.colors) :
       PGet(profile, <<"disliked_color", Lower(item.colors[i])>>) < 0

\* the hard veto: a strictly negative disliked_* entry for a tag, a color or
\* the pattern of the item
Vetoed(item, profile) ==
  \/ \E i \in 1..Len(item.style_tags) :
       PGet(profile, <<"disliked_tag", Lower(item.style_tags[i])>>) < 0
  \/ \E i \in 1..Len(item.colors) :
       PGet(profile, <<"disliked_color", Lower(item.colors[i])>>) < 0
  \/ /\ item.pattern # ""
     /\ PGet(profile, <<"disliked_pattern", Lower(item.pattern)>>) < 0

pattern_weight == 1500

social_proof_weight(ctx) == IF ctx.present THEN 2000 ELSE 0

ScaleFactor(ctx) ==
  LET total_weight == WEIGHTS.style_match + WEIGHTS.color_match
                      + WEIGHTS.fit_match + WEIGHTS.occasion_match
                      + WEIGHTS.trending_bonus + WEIGHTS.retailer_availability
  IN ((total_weight - (pattern_weight + social_proof_weight(ctx))) * SCALE)
       \div total_weight

\* the attribute written by the "if social_proof_score > 0" block
SPMFirstWrite(old, ctx, sps) ==
  IF ctx.present /\ sps > 0 /\ ~old.has
  THEN [has |-> TRUE, celebrity |-> ctx.celebrity, match_score |-> sps,
        has_event |-> ctx.event # "", event |-> ctx.event]
  ELSE old

SPM_THRESHOLD == 6000

\* the attribute after the "good match" block: dict.update keeps an old event
SPMSecondWrite(old, ctx, sps) ==
  IF ctx.present /\ sps > SPM_THRESHOLD
  THEN [has |-> TRUE, celebrity |-> ctx.celebrity, match_score |-> sps,
        has_event |-> (ctx.event # "") \/ (old.has /\ old.has_event),
        event |-> IF ctx.event # "" THEN ctx.event
                  ELSE IF old.has /\ old.has_event THEN old.event ELSE ""]
  ELSE old

\* the keys of the score_components dict, in insertion order
score_components ==
  <<"style_match", "color_match", "fit_match", "occasion_match",
    "pattern_match", "trending_bonus", "social_proof_match">>

\* the weight the final loop applies to a component of score_components
ComponentWeight(component, ctx) ==
  IF component = "pattern_match" THEN pattern_weight
  ELSE IF component = "social_proof_match" /\ ctx.present
  THEN social_proof_weight(ctx)
  ELSE IF component \in DOMAIN WEIGHTS
  THEN Mul(WEIGHTS[component], ScaleFactor(ctx))
  ELSE 0

\* the weighted sum of the score components
FinalScore(item, ctx, style_sum, color_sum, fit_score, occasion_sum, pattern_score, sps) ==
  LET style_match == IF item.style_tags = <<>> THEN 0
                     ELSE Min(style_sum \div Len(item.style_tags), SCALE)
      color_match == IF item.colors = <<>> THEN 0
                     ELSE Min(color_sum \div Len(item.colors), SCALE)
      occasion_match == IF item.occasion_tags = <<>> THEN 0
                        ELSE Min(occasion_sum \div Len(item.occasion_tags), SCALE)
  IN Mul(style_match, ComponentWeight("style_match", ctx))
     + Mul(color_match, ComponentWeight("color_match", ctx))
     + Mul(fit_score, ComponentWeight("fit_match", ctx))
     + Mul(occasion_match, ComponentWeight("occasion_match", ctx))
     + Mul(pattern_score, ComponentWeight("pattern_match", ctx))
     + Mul(item.trending_score, ComponentWeight("trending_bonus", ctx))
     + Mul(sps, ComponentWeight("social_proof_match", ctx))

\* with a context and a social proof reason, the reasons that mention the
\* celebrity come first
SocialFirst(unique_reasons, ctx) ==
  IF ctx.present /\ \E i \in 1..Len(unique_reasons) :
                      unique_reasons[i][1] = "inspired"
  THEN SelectSeq(unique_reasons, LAMBDA r : ReasonMentions(r, ctx.celebrity))
       \o SelectSeq(unique_reasons, LAMBDA r : ~ReasonMentions(r, ctx.celebrity))
  ELSE unique_reasons

\* the value returned, and the attribute left, by a call that passes the veto;
\* sps is the social proof score (0 without a context)
ScoreFrom(item, ctx, style, color, fit, occ, pat, sps) ==
  [raised |-> FALSE,
   score |-> FinalScore(item, ctx, style.sum, color.sum, fit.score, occ.sum,
                        pat.score, sps),
   reasons |->
     Slice(SocialFirst(
             Dedupe(style.reasons \o color.reasons \o fit.reasons
                    \o occ.reasons \o pat.reasons
                    \o (IF item.trending_score > Fx(7)
                        THEN <<(<<"trending", "">>)>> ELSE <<>>)
                    \o (IF ctx.present /\ sps > 0
                        THEN <<(<<"inspired", ctx.celebrity>>)>> ELSE <<>>)),
             ctx), 4),
   spm |-> SPMSecondWrite(SPMFirstWrite(item.social_proof_match, ctx, sps),
                          ctx, sps)]

\* calculate_item_match_score(item, profile, ctx): the returned pair, whether
\* the call raised, and the item's social_proof_match attribute afterwards
calculate_item_match_score(item, profile, ctx) ==
  IF Vetoed(item, profile)
  THEN [raised |-> FALSE, score |-> 0, reasons |-> <<>>,
        spm |-> item.social_proof_match]
  ELSE IF ctx.present /\ SPRaises(ctx)
  THEN [raised |-> TRUE, score |-> 0, reasons |-> <<>>,
        spm |-> item.social_proof_match]
  ELSE ScoreFrom(item, ctx, StyleLoop(item.style_tags, profile),
                 ColorLoop(item.colors, profile), FitPart(item, profile),
                 OccasionLoop(item.occasion_tags, profile),
                 PatternPart(item, profile),
                 IF ctx.present THEN calculate_social_proof_match(item, ctx)
                 ELSE 0)

-----------------------------------------------------------------------------
(* Complementary item finder                                               *)

complementary_categories ==
  [c \in {"tops", "shirts", "t-shirts", "blouses", "bottoms", "pants", "jeans",
          "skirts", "dresses", "outerwear", "shoes", "accessories"} |->
     CASE c = "tops" -> {"bottoms", "shoes", "accessories"}
       [] c = "shirts" -> {"pants", "jeans", "shoes", "accessories"}
       [] c = "t-shirts" -> {"jeans", "shorts", "shoes", "accessories"}
       [] c = "blouses" -> {"skirts", "pants", "accessories"}
       [] c = "bottoms" -> {"tops", "shoes", "accessories"}
       [] c = "pants" -> {"shirts", "t-shirts", "shoes", "accessories"}
       [] c = "jeans" -> {"t-shirts", "shirts", "shoes", "accessories"}
       [] c = "skirts" -> {"blouses", "tops", "shoes", "accessories"}
       [] c = "dresses" -> {"shoes", "accessories"}
       [] c = "outerwear" -> {"tops", "bottoms", "shoes"}
       [] c = "shoes" -> {"tops", "bottoms"}
       [] c = "accessories" -> {"tops", "bottoms", "dresses"}]

\* subcategory.lower() when there is a subcategory, else category.lower()
EffectiveCategory(item) ==
  IF item.subcategory # "" THEN Lower(item.subcategory) ELSE Lower(item.category)

\* the adjustments of a candidate's score s0 next to the anchor
ComplementaryAdjust(s0, color_compatible, pcmp) ==
  LET s1 == IF color_compatible THEN Mul(s0, 12000) ELSE s0
      s2 == IF pcmp.ok THEN Mul(s1, SCALE + Mul(pcmp.score, 3000))
            ELSE Mul(s1, SCALE - Mul(SCALE - pcmp.score, 5000))
  IN IF ~color_compatible /\ ~pcmp.ok THEN Mul(s2, 5000) ELSE s2

\* the adjusted score of one candidate next to the anchor
ComplementaryScore(item, candidate, profile) ==
  ComplementaryAdjust(calculate_item_match_score(candidate, profile, NoCtx).score,
                      are_colors_compatible(item.colors, candidate.colors),
                      are_patterns_compatible(item.pattern, candidate.pattern))

\* [x[0] for x in pairs]
Firsts(pairs) == [i \in 1..Len(pairs) |-> pairs[i][1]]

\* the ids of the best "limit" of the scored candidates
TopIds(scored, limit) == Firsts(Slice(SortDesc(scored), limit))

\* the candidates of the target categories, in catalog order
ComplementaryCandidates(all_items, target) ==
  SelectSeq(all_items, LAMBDA c : EffectiveCategory(c) \in target)

\* (candidate id, adjusted score) for every candidate
ScoreCandidates(item, candidates, profile) ==
  [i \in 1..Len(candidates) |->
     <<candidates[i].item_id, ComplementaryScore(item, candidates[i], profile)>>]

find_complementary_items(item, all_items, profile, limit) ==
  TopIds(ScoreCandidates(
           item,
           ComplementaryCandidates(
             all_items,
             IF EffectiveCategory(item) \in DOMAIN complementary_categories
             THEN complementary_categories[EffectiveCategory(item)] ELSE {}),
           profile),
         limit)

-----------------------------------------------------------------------------
(* Outfit assembler                                                        *)

\* next((i for i in all_items if i.item_id == id), None): 0 when absent
FirstById(all_items, id) ==
  IF \E i \in 1..Len(all_items) : all_items[i].item_id = id
  THEN CHOOSE i \in 1..Len(all_items) :
         /\ all_items[i].item_id = id
         /\ \A j \in 1..(i - 1) : all_items[j].item_id # id
  ELSE 0

ItemCategories(item) ==
  {Lower(item.category)}
  \cup (IF item.subcategory # "" THEN {Lower(item.subcategory)} ELSE {})

\* a required set that a dress does not shorten
EssentialIgnoringDress(occasion, outfit_categories) ==
  IF Lower(occasion) \in {"formal", "business", "date night"}
  THEN {"tops", "bottoms", "shoes", "accessories"}
  ELSE {"tops", "bottoms", "shoes"}

EssentialCategories(occasion, outfit_categories) ==
  LET base == IF Lower(occasion) \in {"formal", "business", "date night"}
              THEN {"tops", "bottoms", "shoes", "accessories"}
              ELSE {"tops", "bottoms", "shoes"}
  IN IF "dresses" \in outfit_categories THEN base \ {"tops", "bottoms"} ELSE base

\* the outfit members that are found in all_items, as objects
OutfitObjects(all_items, outfit_items) ==
  [k \in 1..Len(SelectSeq(outfit_items, LAMBDA id : FirstById(all_items, id) # 0)) |->
     all_items[FirstById(all_items,
                 SelectSeq(outfit_items,
                           LAMBDA id : FirstById(all_items, id) # 0)[k])]]

\* compatibility of one candidate with the members
MembersCompat(members, item) ==
  [colors |-> \A k \in 1..Len(members) :
                are_colors_compatible(members[k].colors, item.colors),
   patterns |-> \A k \in 1..Len(members) :
                  are_patterns_compatible(members[k].pattern, item.pattern).ok,
   total |-> SumSeq([k \in 1..Len(members) |->
               are_patterns_compatible(members[k].pattern, item.pattern).score])]

\* compatibility of one candidate with the outfit members found in all_items
OutfitCompat(all_items, outfit_items, item) ==
  MembersCompat(OutfitObjects(all_items, outfit_items), item)

PATTERN_SKIP_BELOW == 3000

OutfitSkips(cm) == ~cm.colors \/ (~cm.patterns /\ cm.total < PATTERN_SKIP_BELOW)

\* the adjusted score of a candidate that was not skipped; sc is the result
\* of scoring it (with the context), whose attribute write is already done
OutfitCandidateScore(cm, sc, nmembers, ctx) ==
  LET s1 == IF cm.colors THEN Mul(sc.score, 11000) ELSE sc.score
      avg == cm.total \div nmembers
      s2 == IF cm.patterns THEN Mul(s1, SCALE + Mul(avg, 2000))
            ELSE Mul(s1, SCALE - Mul(SCALE - avg, 2000))
  IN IF ctx.present /\ sc.spm.has /\ sc.spm.match_score > 5000
     THEN Mul(s2, SCALE + Mul(sc.spm.match_score, 3000))
     ELSE s2

\* the catalog positions of the items of a category
CategoryIndexes(all_items, category) ==
  {i \in 1..Len(all_items) :
     \/ Lower(all_items[i].category) = category
     \/ (all_items[i].subcategory # ""
         /\ Lower(all_items[i].subcategory) = category)}

\* max(compatible_items, key=score): the first of the best
BestOf(kept, adj) ==
  CHOOSE i \in kept : \A j \in kept : adj[i] > adj[j] \/ (adj[i] = adj[j] /\ i <= j)

\* the outfit with the best candidate appended; every scored candidate has
\* had its attribute written
OutfitAdd(st, kept, scs, best) ==
  [raised |-> FALSE,
   items |-> Append(st.items, st.catalog[best].item_id),
   cats |-> st.cats \cup ItemCategories(st.catalog[best]),
   catalog |-> [i \in 1..Len(st.catalog) |->
                  IF i \in kept
                  THEN [st.catalog[i] EXCEPT !.social_proof_match = scs[i].spm]
                  ELSE st.catalog[i]]]

\* the outfit after a category whose candidates that were not skipped are
\* kept; cms and scs are, per catalog position, the compatibility of the item
\* with the members and the result of scoring it
OutfitPick(st, kept, cms, scs, ctx) ==
  IF \E i \in kept : scs[i].raised THEN [st EXCEPT !.raised = TRUE]
  ELSE IF kept = {} THEN st
  ELSE OutfitAdd(st, kept, scs,
                 BestOf(kept, [i \in 1..Len(st.catalog) |->
                                 OutfitCandidateScore(cms[i], scs[i],
                                                      Len(st.items), ctx)]))

\* the candidates of a category that the compatibility test does not skip
OutfitKept(all_items, outfit_items, category) ==
  {i \in CategoryIndexes(all_items, category) :
     ~OutfitSkips(OutfitCompat(all_items, outfit_items, all_items[i]))}

\* one iteration of "for category in needed_categories"
OutfitStep(st, category, profile, ctx) ==
  IF st.raised THEN st
  ELSE OutfitPick(st, OutfitKept(st.catalog, st.items, category),
                  [i \in 1..Len(st.catalog) |->
                     OutfitCompat(st.catalog, st.items, st.catalog[i])],
                  [i \in 1..Len(st.catalog) |->
                     calculate_item_match_score(st.catalog[i], profile, ctx)],
                  ctx)

RECURSIVE OutfitLoop(_, _, _, _)
OutfitLoop(st, categories, profile, ctx) ==
  IF categories = <<>> THEN st
  ELSE OutfitLoop(OutfitStep(st, Head(categories), profile, ctx),
                  Tail(categories), profile, ctx)

OutfitPatternMessage(objects) ==
  LET patterns == SelectSeq([k \in 1..Len(objects) |-> objects[k].pattern],
                            LAMBDA p : p # "")
  IN IF patterns = <<>> THEN <<"simple solid colors", "">>
     ELSE IF \A k \in 1..Len(patterns) : Lower(patterns[k]) = "solid"
     THEN <<"clean solid colors", "">>
     ELSE IF (\E k \in 1..Len(patterns) : Lower(patterns[k]) = "solid")
             /\ Cardinality(Range(patterns)) > 1
     THEN <<"balanced pattern with solid",
            SelectSeq(patterns, LAMBDA p : Lower(p) # "solid")[1]>>
     ELSE <<"harmonious pattern combinations", "">>

OutfitReasons(st, objects, occasion, ctx) ==
  LET outfit_type == IF "dresses" \in st.cats THEN "dress"
                     ELSE IF "tops" \in st.cats /\ "bottoms" \in st.cats
                     THEN "separates" ELSE "outfit"
      base == << <<"complete", outfit_type, occasion>>,
                 <<"coordinated">> \o OutfitPatternMessage(objects),
                 <<"matches your style", "", "">> >>
      matched == {k \in 1..Len(objects) :
                    objects[k].social_proof_match.has
                    /\ objects[k].social_proof_match.match_score > 5000}
  IN IF ctx.present /\ matched # {}
     THEN IF 2 * Cardinality(matched) > Len(objects)
          THEN << <<"inspired", ctx.celebrity, "">> >> \o base
          ELSE << <<"partially inspired", ctx.celebrity, "">> >> \o base
     ELSE base

MIN_OUTFIT_ITEMS == 3

NoOutfit == [none |-> TRUE]

\* an outfit test that is off by one
ValidOutfitOffByOne(outfit_items) == Len(outfit_items) >= MIN_OUTFIT_ITEMS - 1

\* "if len(outfit_items) >= 3"
ValidOutfit(outfit_items) == Len(outfit_items) >= MIN_OUTFIT_ITEMS

\* the returned outfit (or none) once the loop over the categories is done
OutfitFinish(st, objects, all_items, profile, occasion, ctx, uuid) ==
  IF st.raised
  THEN [raised |-> TRUE, outfit |-> NoOutfit, catalog |-> all_items]
  ELSE IF ValidOutfit(st.items)
  THEN [raised |-> FALSE,
        outfit |-> [none |-> FALSE, outfit_id |-> uuid, items |-> st.items,
                    score |-> SumSeq([k \in 1..Len(objects) |->
                                calculate_item_match_score(objects[k], profile,
                                                           NoCtx).score])
                              \div Len(objects),
                    occasion |-> occasion,
                    match_reasons |-> OutfitReasons(st, objects, occasion, ctx),
                    social_proof |-> ctx],
        catalog |-> st.catalog]
  ELSE [raised |-> FALSE, outfit |-> NoOutfit, catalog |-> st.catalog]

\* the state of the loop over the categories, and the members found
OutfitAfterLoop(st, all_items, profile, occasion, ctx, uuid) ==
  OutfitFinish(st, OutfitObjects(st.catalog, st.items), all_items, profile,
               occasion, ctx, uuid)

\* the categories still needed, in the iteration order of the set
NeededCategories(base_item, occasion, order) ==
  SelectSeq(order,
            LAMBDA c : c \in EssentialCategories(occasion, ItemCategories(base_item))
                              \ ItemCategories(base_item))

\* generate_outfit_recommendation; order is the iteration order of the set
\* needed_categories, uuid the value drawn by uuid4
generate_outfit_recommendation(base_item, all_items, profile, occasion, ctx, order, uuid) ==
  OutfitAfterLoop(
    OutfitLoop([raised |-> FALSE, items |-> <<base_item.item_id>>,
                cats |-> ItemCategories(base_item), catalog |-> all_items],
               NeededCategories(base_item, occasion, order), profile, ctx),
    all_items, profile, occasion, ctx, uuid)

-----------------------------------------------------------------------------
(* Style profile builder                                                   *)

\* s.replace(" ", "_") over the vocabulary
Snake(s) == IF s = "polka dot" THEN "polka_dot" ELSE s

\* f"{cat}_{subcat}" over the vocabulary
UJoin(a, b) ==
  CASE a = "bottoms" /\ b = "jeans" -> "bottoms_jeans"
    [] a = "tops" /\ b = "shirts" -> "tops_shirts"
    [] OTHER -> "other_other"

\* item_id.split("_") over the vocabulary
Parts(id) ==
  CASE id = "zara_tops_red" -> <<"zara", "tops", "red">>
    [] id = "levis_jeans_blue" -> <<"levis", "jeans", "blue">>
    [] id = "Zara_Tops_Red_XL" -> <<"Zara", "Tops", "Red", "XL">>
    [] id = "hm_black" -> <<"hm", "black">>
    [] OTHER -> <<id>>

budget_map ==
  [b \in {"Under $50", "$50 - $100", "$100 - $250", "$250+"} |->
     CASE b = "Under $50" -> "budget_low"
       [] b = "$50 - $100" -> "budget_medium_low"
       [] b = "$100 - $250" -> "budget_medium_high"
       [] b = "$250+" -> "budget_high"]

NoQuiz ==
  [present |-> FALSE, overall_style |-> <<>>, priorities |-> <<>>,
   color_palette |-> <<>>, pattern_preference |-> "",
   preferred_patterns |-> <<>>, top_fit |-> <<>>, bottom_fit |-> <<>>,
   occasion_preferences |-> <<>>, favorite_brands |-> <<>>,
   budget_range |-> "", sustainability_priority |-> FALSE,
   secondhand_interest |-> FALSE, seasonal_preference |-> ""]

QuizKeys(quiz) ==
  {<<"style", Lower(quiz.overall_style[i])>> : i \in 1..Len(quiz.overall_style)}
  \cup {<<"color", Lower(quiz.color_palette[i])>> : i \in 1..Len(quiz.color_palette)}
  \cup (IF quiz.pattern_preference # ""
        THEN {<<"pattern", Snake(Lower(quiz.pattern_preference))>>} ELSE {})
  \cup {<<"pattern", Snake(Lower(quiz.preferred_patterns[i]))>> :
          i \in 1..Len(quiz.preferred_patterns)}
  \cup {<<"top_fit", Lower(quiz.top_fit[i])>> : i \in 1..Len(quiz.top_fit)}
  \cup {<<"bottom_fit", Snake(Lower(quiz.bottom_fit[i]))>> :
          i \in 1..Len(quiz.bottom_fit)}
  \cup {<<"occasion", Lower(quiz.occasion_preferences[i])>> :
          i \in 1..Len(quiz.occasion_preferences)}
  \cup (IF quiz.sustainability_priority THEN {<<"sustainability", "">>} ELSE {})
  \cup (IF quiz.secondhand_interest THEN {<<"secondhand", "">>} ELSE {})
  \cup (IF quiz.seasonal_preference # ""
        THEN {<<"season", Snake(Lower(quiz.seasonal_preference))>>} ELSE {})
  \cup (IF quiz.budget_range # "" /\ quiz.budget_range \in DOMAIN budget_map
        THEN {<<budget_map[quiz.budget_range], "">>} ELSE {})

\* every selected option weighs 1.0, then the weights are divided by their sum
analyze_style_quiz(quiz) ==
  [k \in QuizKeys(quiz) |-> SCALE \div Cardinality(QuizKeys(quiz))]

\* number of closet items that contribute key k
ClosetCount(closet, k) ==
  Cardinality({i \in 1..Len(closet) : k \in
    {<<"category", Lower(closet[i].category)>>}
    \cup (IF closet[i].subcategory # ""
          THEN {<<"category", UJoin(Lower(closet[i].category),
                                    Lower(closet[i].subcategory))>>} ELSE {})
    \cup (IF closet[i].color # "" THEN {<<"color", Lower(closet[i].color)>>} ELSE {})
    \cup (IF closet[i].brand # "" THEN {<<"brand", Lower(closet[i].brand)>>} ELSE {})
    \cup {<<"tag", Lower(closet[i].tags[j])>> : j \in 1..Len(closet[i].tags)}})

\* the favorite_* keys leave out the category_sub keys
FavCount(closet, k) ==
  Cardinality({i \in 1..Len(closet) : closet[i].favorite /\ k \in
    {<<"favorite_category", Lower(closet[i].category)>>}
    \cup (IF closet[i].color # ""
          THEN {<<"favorite_color", Lower(closet[i].color)>>} ELSE {})
    \cup (IF closet[i].brand # ""
          THEN {<<"favorite_brand", Lower(closet[i].brand)>>} ELSE {})
    \cup {<<"favorite_tag", Lower(closet[i].tags[j])>> :
            j \in 1..Len(closet[i].tags)}})

ClosetKeySpace(closet) ==
  UNION {{<<"category", Lower(closet[i].category)>>,
          <<"category", UJoin(Lower(closet[i].category), Lower(closet[i].subcategory))>>,
          <<"color", Lower(closet[i].color)>>,
          <<"brand", Lower(closet[i].brand)>>,
          <<"favorite_category", Lower(closet[i].category)>>,
          <<"favorite_color", Lower(closet[i].color)>>,
          <<"favorite_brand", Lower(closet[i].brand)>>}
         \cup {<<"tag", Lower(closet[i].tags[j])>> : j \in 1..Len(closet[i].tags)}
         \cup {<<"favorite_tag", Lower(closet[i].tags[j])>> : j \in 1..Len(closet[i].tags)}
         : i \in 1..Len(closet)}

analyze_closet(closet) ==
  LET favorite_count == Cardinality({i \in 1..Len(closet) : closet[i].favorite})
      keys == {k \in ClosetKeySpace(closet) :
                 ClosetCount(closet, k) > 0 \/ FavCount(closet, k) > 0}
  IN [k \in keys |->
        IF FavCount(closet, k) > 0
        THEN Mul((FavCount(closet, k) * SCALE) \div favorite_count, 15000)
        ELSE (ClosetCount(closet, k) * SCALE) \div Len(closet)]

\* brand, category and color tokens of the ids that split into >= 3 parts
FeedbackTokens(ids, brand_prefix, category_prefix, color_prefix) ==
  UNION {IF Len(Parts(id)) >= 3
         THEN {<<brand_prefix, Lower(Parts(id)[1])>>,
               <<category_prefix, Lower(Parts(id)[2])>>,
               <<color_prefix, Lower(Parts(id)[3])>>}
         ELSE {} : id \in ids}

analyze_feedback(feedback) ==
  LET liked == FeedbackTokens(feedback.liked_items,
                              "liked_brand", "liked_category", "liked_color")
      disliked == FeedbackTokens(feedback.disliked_items, "disliked_brand",
                                 "disliked_category", "disliked_color")
  IN [k \in liked \cup disliked |-> IF k \in disliked THEN 0 - SCALE ELSE SCALE]

\* key.startswith("disliked_")
IsDislikedKey(k) ==
  k[1] \in {"disliked_brand", "disliked_category", "disliked_color",
            "disliked_tag", "disliked_pattern"}

QUIZ_WEIGHT == 5000

CLOSET_WEIGHT == 3000

FEEDBACK_WEIGHT == 2000

\* a combination that blends the disliked keys like every other key
CombineBlend(quiz_profile, closet_profile, feedback_profile) ==
  [k \in DOMAIN quiz_profile \cup DOMAIN closet_profile \cup DOMAIN feedback_profile |->
     (IF k \in DOMAIN quiz_profile THEN Mul(quiz_profile[k], QUIZ_WEIGHT) ELSE 0)
     + (IF k \in DOMAIN closet_profile
        THEN Mul(closet_profile[k], CLOSET_WEIGHT) ELSE 0)
     + (IF k \in DOMAIN feedback_profile
        THEN Mul(feedback_profile[k], FEEDBACK_WEIGHT) ELSE 0)]

combine_style_profiles(quiz_profile, closet_profile, feedback_profile) ==
  [k \in DOMAIN quiz_profile \cup DOMAIN closet_profile \cup DOMAIN feedback_profile |->
     IF k \in DOMAIN feedback_profile /\ IsDislikedKey(k)
     THEN 0 - SCALE
     ELSE (IF k \in DOMAIN quiz_profile THEN Mul(quiz_profile[k], QUIZ_WEIGHT) ELSE 0)
          + (IF k \in DOMAIN closet_profile
             THEN Mul(closet_profile[k], CLOSET_WEIGHT) ELSE 0)
          + (IF k \in DOMAIN feedback_profile
             THEN Mul(feedback_profile[k], FEEDBACK_WEIGHT) ELSE 0)]

EmptyProfile == [k \in {} |-> 0]

generate_user_style_profile(user) ==
  combine_style_profiles(
    IF user.style_quiz.present THEN analyze_style_quiz(user.style_quiz) ELSE EmptyProfile,
    IF user.closet_items # <<>> THEN analyze_closet(user.closet_items) ELSE EmptyProfile,
    analyze_feedback(user.feedback))

-----------------------------------------------------------------------------
(* Recommendation orchestrator                                             *)

NoUuid == <<"", 0>>

\* a closet loop that fails before its first iteration
ClosetRaisesAlways(user, filtered_items) == user.closet_items # <<>>

\* the closet loop reads closet_item.colors, closet_item.pattern and
\* closet_item.style_tags; UserClosetItem has color and tags only, so the
\* first pair (item, closet_item) raises AttributeError
ClosetBucketRaises(user, filtered_items) ==
  filtered_items # <<>> /\ user.closet_items # <<>>

\* calculate_social_proof_match is called for every filtered item
SocialBucketRaises(ctx, filtered_items) ==
  ctx.present /\ filtered_items # <<>> /\ SPRaises(ctx)

\* [(item, score) for item in items]
ScoreAll(items, profile) ==
  [i \in 1..Len(items) |->
     <<items[i], calculate_item_match_score(items[i], profile, NoCtx).score>>]

\* [(item, match) for item in items]
MatchAll(items, ctx) ==
  [i \in 1..Len(items) |-> <<items[i], calculate_social_proof_match(items[i], ctx)>>]

\* the items of the (item, score) pairs sorted by score, best first, cut to n
RankBy(pairs, n) == Slice(Firsts(SortDesc(pairs)), n)

SOCIAL_BUCKET_MIN == 4000

\* b.lower() in item.brand.lower() or item.brand.lower() in b.lower()
SimilarBrand(item, favorite_brands) ==
  /\ item.brand \notin favorite_brands
  /\ \E b \in favorite_brands :
       Substr(Lower(b), Lower(item.brand)) \/ Substr(Lower(item.brand), Lower(b))

\* the backfill loop over all_scored
RECURSIVE Backfill(_, _, _)
Backfill(deduped, ranked, total) ==
  IF ranked = <<>> THEN deduped
  ELSE LET item == Head(ranked)
           seen == {deduped[i].item_id : i \in 1..Len(deduped)}
           next == IF item.item_id \in seen THEN deduped ELSE Append(deduped, item)
       IN IF Len(next) = total THEN next
          ELSE Backfill(next, Tail(ranked), total)

\* a dedupe that keeps everything
NoDedupe(items) == items

\* first occurrence of each item id
RECURSIVE DedupeById(_)
DedupeById(items) ==
  IF items = <<>> THEN <<>>
  ELSE LET r == DedupeById(SubSeq(items, 1, Len(items) - 1))
           x == items[Len(items)]
       IN IF x.item_id \in {r[i].item_id : i \in 1..Len(r)} THEN r
          ELSE Append(r, x)

OUTFIT_MIN_SCORE == 6000

OUTFIT_ANCHORS == 5

COMPLEMENTARY_LIMIT == 3

\* the items of a sequence that are not among the picked ones
NotPicked(items, picked) ==
  SelectSeq(items, LAMBDA it : it.item_id \notin {picked[i].item_id : i \in 1..Len(picked)})

\* a merge without the backfill
CutOnly(deduped, all_scored, total) == Slice(deduped, total)

\* dedupe, backfill from all_scored while short of total, truncation
FillUp(deduped, all_scored, total) ==
  Slice(IF Len(deduped) < total THEN Backfill(deduped, all_scored, total)
        ELSE deduped,
        total)

\* bucket_size = max(1, total // 5)
BucketSize(total) == Max(1, total \div 5)

\* best_guess_size = total - 4 * bucket_size
BestGuessSize(total) == total - 4 * BucketSize(total)

\* the social-proof bucket: the items matching the context above 0.4, ranked
\* by that match; empty without a context
SocialBucket(scored, ctx, total) ==
  IF ctx.present
  THEN RankBy(SelectSeq(MatchAll(Firsts(scored), ctx),
                        LAMBDA p : p[2] > SOCIAL_BUCKET_MIN),
              BucketSize(total))
  ELSE <<>>

\* the trending bucket: the items flagged trending, ranked by score
TrendingBucket(scored, total) ==
  RankBy(SelectSeq(scored, LAMBDA p : p[1].is_trending), BucketSize(total))

\* set(user.favorite_brands) if hasattr(user, "favorite_brands") else set()
FavoriteBrands(user) ==
  IF user.has_favorite_brands THEN Range(user.favorite_brands) ELSE {}

\* the similar-brand bucket, ranked by score
SimilarBrandBucket(user, scored, total) ==
  RankBy(SelectSeq(scored, LAMBDA p : SimilarBrand(p[1], FavoriteBrands(user))),
         BucketSize(total))

\* best_guess_candidates[:best_guess_size]
BestGuessBucket(picked, all_scored, total) ==
  Slice(NotPicked(all_scored, picked), BestGuessSize(total))

\* a merge that puts the best guesses before the buckets
AssembleBestFirst(picked, all_scored, total) ==
  FillUp(DedupeById(BestGuessBucket(picked, all_scored, total) \o picked),
         all_scored, total)

\* the four buckets, then the best guesses among the rest, deduped and filled
Assemble(picked, all_scored, total) ==
  FillUp(DedupeById(picked \o BestGuessBucket(picked, all_scored, total)),
         all_scored, total)

\* the selected items, in order; scored is [(item, score)] over the filtered
\* items.  The closet bucket is empty: its loop raises whenever it runs
SelectItems(user, scored, ctx, total) ==
  Assemble(SocialBucket(scored, ctx, total) \o TrendingBucket(scored, total)
           \o SimilarBrandBucket(user, scored, total),
           RankBy(scored, Len(scored)), total)

\* the ItemRecommendation of every selected item
ItemRecommendations(deduped_items, filtered_items, profile) ==
  [i \in 1..Len(deduped_items) |->
     [item_id |-> deduped_items[i].item_id,
      score |-> calculate_item_match_score(deduped_items[i], profile, NoCtx).score,
      match_reasons |->
        calculate_item_match_score(deduped_items[i], profile, NoCtx).reasons,
      complementary_items |->
        find_complementary_items(deduped_items[i], filtered_items, profile,
                                 COMPLEMENTARY_LIMIT),
      social_proof_match |-> NoSPM]]

\* an outfit filter that forgets the minimum score
AnyOutfit(o) == ~o.none

\* "if outfit and outfit.score > 0.6"
GoodOutfit(o) == ~o.none /\ o.score > OUTFIT_MIN_SCORE

\* the outfits built around the first anchors that score above the minimum
OutfitRecommendations(anchors, filtered_items, profile, order, seed) ==
  SelectSeq([i \in 1..Len(anchors) |->
               generate_outfit_recommendation(
                 anchors[i], filtered_items, profile,
                 IF anchors[i].occasion_tags # <<>> THEN anchors[i].occasion_tags[1]
                 ELSE "Everyday Casual",
                 NoCtx, order, <<seed, i>>).outfit],
            LAMBDA o : GoodOutfit(o))

\* the response built from the selected items
Respond(user, deduped_items, filtered_items, profile, context, order, seed) ==
  [raised |-> FALSE,
   user_id |-> user.user_id,
   recommended_items |-> ItemRecommendations(deduped_items, filtered_items, profile),
   recommended_outfits |->
     OutfitRecommendations(Slice(deduped_items, OUTFIT_ANCHORS), filtered_items,
                           profile, order, seed),
   recommendation_context |-> context]

\* generate_recommendations once the profile is built and the owned items are
\* filtered out
RecommendFrom(user, filtered_items, profile, context, ctx, total, order, seed) ==
  IF ClosetBucketRaises(user, filtered_items)
  THEN [raised |-> TRUE, error |-> "AttributeError"]
  ELSE IF SocialBucketRaises(ctx, filtered_items)
  THEN [raised |-> TRUE, error |-> "UnboundLocalError"]
  ELSE Respond(user,
               SelectItems(user, ScoreAll(filtered_items, profile), ctx, total),
               filtered_items, profile, context, order, seed)

\* the available items that the user does not own
FilterOwned(user, available_items) ==
  SelectSeq(available_items,
            LAMBDA it : it.item_id \notin
                          {user.closet_items[i].item_id : i \in 1..Len(user.closet_items)})

\* generate_recommendations; seed is the value the uuid4 draws derive from
generate_recommendations(user, available_items, context, ctx, total, order, seed) ==
  RecommendFrom(user, FilterOwned(user, available_items),
                generate_user_style_profile(user), context, ctx, total, order,
                seed)

-----------------------------------------------------------------------------
(* Inputs: catalog items, users, contexts, profiles                        *)

MaxCatalog == 3

Item(id, brand, category, subcategory, colors, tags, pattern, fit, occasions, trending, is_trending) ==
  [item_id |-> id, brand |-> brand, category |-> category,
   subcategory |-> subcategory, colors |-> colors, style_tags |-> tags,
   pattern |-> pattern, fit_type |-> fit, occasion_tags |-> occasions,
   trending_score |-> trending, is_trending |-> is_trending,
   social_proof_match |-> NoSPM]

Pool ==
  << Item("t1", "Zara", "tops", "", <<"black">>, <<"minimalist">>, "stripes",
          "fitted", <<"Casual">>, 9000, TRUE),
     Item("b1", "Levis", "bottoms", "jeans", <<"blue">>, <<"Casual">>, "Solid",
          "slim", <<>>, 5000, FALSE),
     Item("s1", "Clarks", "shoes", "boots", <<"blue">>, <<>>, "plaid",
          "", <<>>, 0, FALSE),
     Item("r1", "Zara", "tops", "", <<"Red">>, <<"bold">>, "busy",
          "", <<"formal">>, 10000, FALSE),
     Item("z1", "Boss", "outerwear", "blazer", <<"black">>, <<"Formal">>, "",
          "tailored", <<"formal">>, 3000, FALSE),
     Item("s1", "Gucci", "accessories", "", <<"white">>, <<"bold">>, "polka",
          "", <<>>, 2000, FALSE) >>

\* catalogs: the sub-lists of the pool (in pool order) of at most MaxCatalog
\* items
SubList(S) ==
  LET idx == [i \in 1..Cardinality(S) |->
                CHOOSE k \in S : Cardinality({j \in S : j < k}) = i - 1]
  IN [i \in 1..Cardinality(S) |-> Pool[idx[i]]]

Catalogs ==
  {SubList(S) : S \in {T \in SUBSET (1..Len(Pool)) : Cardinality(T) <= MaxCatalog}}

ClosetItem(id, category, subcategory, color, brand, tags, favorite) ==
  [item_id |-> id, category |-> category, subcategory |-> subcategory,
   color |-> color, brand |-> brand, tags |-> tags, favorite |-> favorite]

NoFeedback == [liked_items |-> {}, disliked_items |-> {}]

User(id, closet, quiz, feedback) ==
  [user_id |-> id, closet_items |-> closet, style_quiz |-> quiz,
   feedback |-> feedback, has_favorite_brands |-> FALSE,
   favorite_brands |-> <<>>]

Users ==
  { User("u0", <<>>, NoQuiz, NoFeedback),
    User("u1", <<>>,
         [NoQuiz EXCEPT !.present = TRUE, !.overall_style = <<"MINIMALIST">>,
                        !.color_palette = <<"NEUTRALS">>,
                        !.preferred_patterns = <<"solid", "stripes">>,
                        !.occasion_preferences = <<"CASUAL">>],
         [liked_items |-> {"levis_jeans_blue", "hm_black"},
          disliked_items |-> {"Zara_Tops_Red_XL"}]),
    User("u2", <<ClosetItem("b1", "bottoms", "jeans", "blue", "Levis",
                            <<"Casual">>, TRUE)>>,
         NoQuiz, NoFeedback) }

Ctx(celebrity, event, description, tags, patterns, colors) ==
  [present |-> TRUE, celebrity |-> celebrity, event |-> event,
   outfit_description |-> description, outfit_tags |-> tags,
   patterns |-> patterns, colors |-> colors]

CtxA == Ctx("X", "gala", "tailored formal blazer look", <<"blazer">>, <<>>,
            <<"black", "white">>)

CtxB == Ctx("Y", "", "", <<"blazer">>, <<>>, <<"black", "white">>)

CtxC == Ctx("Y", "", "black jacket", <<"tailored jacket">>, <<"polka dot">>, <<>>)

\* a context under which the blazer of the pool matches by color and
\* silhouette only: 0.25 + 0.15
CtxD == Ctx("Z", "", "tailored", <<>>, <<>>, <<"black">>)

\* the same with a complementary style: 0.25 + 0.15 + 0.09
CtxE == Ctx("W", "", "tailored elegant", <<>>, <<>>, <<"black">>)

Contexts == {NoCtx, CtxA, CtxB, CtxC, CtxD, CtxE}

MkProfile(pairs) == [k \in {x[1] : x \in pairs} |->
                       (CHOOSE x \in pairs : x[1] = k)[2]]

ProfileLikes ==
  MkProfile({ << <<"style", "minimalist">>, 8000 >>,
              << <<"style", "casual">>, 8000 >>,
              << <<"style", "formal">>, 9000 >>,
              << <<"liked_tag", "formal">>, 9000 >>,
              << <<"color", "black">>, 8000 >>,
              << <<"color", "blue">>, 9000 >>,
              << <<"liked_color", "black">>, 5000 >>,
              << <<"top_fit", "fitted">>, 7000 >>,
              << <<"bottom_fit", "slim">>, 7000 >>,
              << <<"bottom_fit", "tailored">>, 8000 >>,
              << <<"occasion", "casual">>, 9000 >>,
              << <<"occasion", "formal">>, 9000 >>,
              << <<"pattern", "solid">>, 8000 >>,
              << <<"liked_pattern", "stripes">>, 6000 >>,
              << <<"disliked_color", "blue">>, 0 >>,
              << <<"disliked_pattern", "busy">>, 0 - 7000 >> })

ProfileDislikes ==
  MkProfile({ << <<"style", "bold">>, 10000 >>,
              << <<"color", "red">>, 10000 >>,
              << <<"color", "white">>, 6000 >>,
              << <<"disliked_tag", "bold">>, 0 - 10000 >>,
              << <<"disliked_color", "red">>, 0 - 10000 >>,
              << <<"disliked_category", "tops">>, 0 - 10000 >> })

Profiles == {ProfileLikes, ProfileDislikes, EmptyProfile}

Occasions == {"Everyday Casual", "formal"}

Uuids == {"u-1", "u-2"}

\* iteration orders of the set needed_categories (they depend on the
\* per-process string hash seed)
HashOrders ==
  { <<"tops", "bottoms", "shoes", "accessories">>,
    <<"accessories", "shoes", "bottoms", "tops">> }

\* MAX_RECOMMENDATIONS = int(os.getenv("MAX_RECOMMENDATIONS", "20"))
MAX_RECOMMENDATIONS == 20

MaxRecChoices == {MAX_RECOMMENDATIONS, 2}

-----------------------------------------------------------------------------
(* The engine as a state machine: the catalog is the shared, reusable      *)
(* collection of ClothingItem objects; every action is one call.           *)

NoResult == [op |-> "none"]

Init ==
  /\ catalog \in Catalogs
  /\ hashOrder \in HashOrders
  /\ maxRec \in MaxRecChoices
  /\ pc = "idle"
  /\ result = NoResult

\* the call returns r and leaves the attribute r.spm on the item
ScoreReturn(i, profile, ctx, r) ==
  /\ result' = [op |-> "score", item |-> catalog[i], index |-> i,
                profile |-> profile, ctx |-> ctx, raised |-> r.raised,
                score |-> r.score, reasons |-> r.reasons]
  /\ catalog' = [catalog EXCEPT ![i].social_proof_match = r.spm]

\* score(item, profile, ctx) on the i-th catalog item
Score(i, profile, ctx) ==
  /\ pc = "idle"
  /\ ScoreReturn(i, profile, ctx,
                 calculate_item_match_score(catalog[i], profile, ctx))
  /\ pc' = "done"
  /\ UNCHANGED <<hashOrder, maxRec>>

\* match(item, ctx) on the i-th catalog item
Match(i, ctx) ==
  /\ pc = "idle"
  /\ ctx.present
  /\ result' = [op |-> "match", item |-> catalog[i], ctx |-> ctx,
                raised |-> SPRaises(ctx),
                garment |-> IF SPRaises(ctx) THEN 0
                            ELSE SPGarment(catalog[i], ctx),
                score |-> IF SPRaises(ctx) THEN 0
                          ELSE calculate_social_proof_match(catalog[i], ctx)]
  /\ pc' = "done"
  /\ UNCHANGED <<catalog, hashOrder, maxRec>>

\* findComplementary(anchor, catalog, profile, limit)
FindComplementary(anchor, profile, limit) ==
  /\ pc = "idle"
  /\ result' = [op |-> "complementary", anchor |-> anchor, profile |-> profile,
                limit |-> limit,
                ids |-> find_complementary_items(anchor, catalog, profile, limit)]
  /\ pc' = "done"
  /\ UNCHANGED <<catalog, hashOrder, maxRec>>

\* the call returns r.outfit (its id drawn by uuid4) and leaves r.catalog
BuildOutfitReturn(anchor, profile, occasion, ctx, r) ==
  /\ \E u \in Uuids :
       result' = [op |-> "outfit", anchor |-> anchor, profile |-> profile,
                  occasion |-> occasion, ctx |-> ctx, before |-> catalog,
                  raised |-> r.raised,
                  outfit |-> IF r.outfit.none THEN r.outfit
                             ELSE [r.outfit EXCEPT !.outfit_id = <<u, 0>>]]
  /\ catalog' = r.catalog

\* buildOutfit(anchor, catalog, profile, occasion, ctx)
BuildOutfit(anchor, profile, occasion, ctx) ==
  /\ pc = "idle"
  /\ BuildOutfitReturn(anchor, profile, occasion, ctx,
                       generate_outfit_recommendation(anchor, catalog, profile,
                                                      occasion, ctx, hashOrder,
                                                      NoUuid))
  /\ pc' = "done"
  /\ UNCHANGED <<hashOrder, maxRec>>

\* the value a call of generate returns; calls counts the calls made with
\* these inputs
GenerateResult(user, ctx, seed, calls) ==
  [op |-> "generate", user |-> user, ctx |-> ctx, before |-> catalog,
   calls |-> calls,
   response |-> generate_recommendations(user, catalog, "evening", ctx, maxRec,
                                         hashOrder, seed)]

\* generate(user, catalog, context, ctx)
Generate(user, ctx) ==
  /\ pc = "idle"
  /\ \E seed \in Uuids : result' = GenerateResult(user, ctx, seed, 1)
  /\ pc' = "done"
  /\ UNCHANGED <<catalog, hashOrder, maxRec>>

\* a second call of generate with the inputs of the call that just returned
GenerateAgain ==
  /\ pc = "done"
  /\ result.op = "generate"
  /\ \E seed \in Uuids :
       result' = GenerateResult(result.user, result.ctx, seed, 2)
  /\ UNCHANGED <<catalog, hashOrder, maxRec, pc>>

\* the caller takes the returned value
Return ==
  /\ pc = "done"
  /\ pc' = "idle"
  /\ result' = NoResult
  /\ UNCHANGED <<catalog, hashOrder, maxRec>>

\* the anchors tried: the catalog's items and one item outside the catalog
Anchors == Range(catalog) \cup {Pool[4]}

OutfitContexts == {NoCtx, CtxA, CtxB}

\* a call starts only when no call is under way
Next ==
  \/ pc = "idle" /\ \E i \in 1..Len(catalog), p \in Profiles, c \in Contexts :
                      Score(i, p, c)
  \/ pc = "idle" /\ \E i \in 1..Len(catalog), c \in Contexts : Match(i, c)
  \/ pc = "idle" /\ \E a \in Anchors, p \in Profiles,
                        l \in {1, COMPLEMENTARY_LIMIT} :
                      FindComplementary(a, p, l)
  \/ pc = "idle" /\ \E a \in Anchors, p \in {ProfileLikes, ProfileDislikes},
                        o \in Occasions, c \in OutfitContexts :
                      BuildOutfit(a, p, o, c)
  \/ pc = "idle" /\ \E u \in Users, c \in OutfitContexts : Generate(u, c)
  \/ GenerateAgain
  \/ Return

Spec == Init /\ [][Next]_vars

-----------------------------------------------------------------------------
(* Calls of the functions that read no catalog: the compatibility checks   *)
(* and the profile builders, each applied to inputs of bounded size        *)

MaxColors == 2

\* a neutral, a mixed-case name, members of the pairs and of the families,
\* and a color of no table
ColorNames == {"black", "Red", "green", "pink", "olive", "neon"}

ColorLists == UNION {[1..n -> ColorNames] : n \in 0..MaxColors}

\* every pattern of the two rule tables, a missing one (""), mixed case and a
\* pattern of no table
PatternNames ==
  DOMAIN PATTERN_CLASH_RULES \cup DOMAIN PATTERN_COMPLEMENT_RULES
  \cup {"", "Solid", "Plaid", "paisley"}

QuizProfiles ==
  { EmptyProfile,
    MkProfile({ << <<"color", "black">>, 10000 >>,
                << <<"disliked_color", "red">>, 7000 >> }),
    MkProfile({ << <<"style", "casual">>, 5000 >>,
                << <<"color", "black">>, 5000 >> }) }

ClosetProfiles ==
  { EmptyProfile,
    MkProfile({ << <<"color", "black">>, 3000 >>,
                << <<"category", "tops">>, 5000 >>,
                << <<"disliked_color", "red">>, 4000 >> }) }

FeedbackProfiles ==
  { EmptyProfile,
    MkProfile({ << <<"liked_color", "black">>, 10000 >>,
                << <<"disliked_color", "red">>, 0 - 10000 >> }),
    MkProfile({ << <<"color", "black">>, 10000 >>,
                << <<"disliked_color", "red">>, 5000 >>,
                << <<"disliked_tag", "bold">>, 0 >> }) }

\* quiz results: each field left at its default or answered
Quizzes ==
  { [NoQuiz EXCEPT !.present = TRUE, !.overall_style = s, !.color_palette = c,
                   !.pattern_preference = pp, !.preferred_patterns = pl,
                   !.budget_range = b, !.favorite_brands = fb,
                   !.priorities = pr, !.sustainability_priority = su] :
      s \in {<<>>, <<"MINIMALIST">>, <<"MINIMALIST", "SPORTY">>},
      c \in {<<>>, <<"NEUTRALS">>},
      pp \in {"", "polka dot"},
      pl \in {<<>>, <<"polka dot">>},
      b \in {"", "$250+", "luxury"},
      fb \in {<<>>, <<"Zara">>},
      pr \in {<<>>, <<"comfort">>},
      su \in BOOLEAN }

CallsInit ==
  /\ catalog = <<>>
  /\ hashOrder = <<"tops", "bottoms", "shoes", "accessories">>
  /\ maxRec = MAX_RECOMMENDATIONS
  /\ pc = "idle"
  /\ result = NoResult

\* colorsCompatible(colors1, colors2)
ColorsCompatible(colors1, colors2) ==
  /\ pc = "idle"
  /\ result' = [op |-> "colors", colors1 |-> colors1, colors2 |-> colors2,
                compatible |-> are_colors_compatible(colors1, colors2)]
  /\ pc' = "done"
  /\ UNCHANGED <<catalog, hashOrder, maxRec>>

\* patternsCompatible(pattern1, pattern2)
PatternsCompatible(pattern1, pattern2) ==
  /\ pc = "idle"
  /\ result' = [op |-> "patterns", pattern1 |-> pattern1, pattern2 |-> pattern2,
                value |-> are_patterns_compatible(pattern1, pattern2)]
  /\ pc' = "done"
  /\ UNCHANGED <<catalog, hashOrder, maxRec>>

\* combine_style_profiles(quiz_profile, closet_profile, feedback_profile)
Combine(quiz_profile, closet_profile, feedback_profile) ==
  /\ pc = "idle"
  /\ result' = [op |-> "combine", quiz |-> quiz_profile,
                closet |-> closet_profile, feedback |-> feedback_profile,
                combined |-> combine_style_profiles(quiz_profile, closet_profile,
                                                    feedback_profile)]
  /\ pc' = "done"
  /\ UNCHANGED <<catalog, hashOrder, maxRec>>

\* analyze_style_quiz(quiz)
AnalyzeQuiz(quiz) ==
  /\ pc = "idle"
  /\ result' = [op |-> "quiz", quiz |-> quiz,
                profile |-> analyze_style_quiz(quiz)]
  /\ pc' = "done"
  /\ UNCHANGED <<catalog, hashOrder, maxRec>>

\* a call starts only when no call is under way
CallsNext ==
  \/ pc = "idle" /\ \E a \in ColorLists, b \in ColorLists : ColorsCompatible(a, b)
  \/ pc = "idle" /\ \E p1 \in PatternNames, p2 \in PatternNames :
                      PatternsCompatible(p1, p2)
  \/ pc = "idle" /\ \E q \in QuizProfiles, c \in ClosetProfiles,
                        f \in FeedbackProfiles : Combine(q, c, f)
  \/ pc = "idle" /\ \E quiz \in Quizzes : AnalyzeQuiz(quiz)
  \/ Return

Calls == CallsInit /\ [][CallsNext]_vars

-----------------------------------------------------------------------------
(* The same calls on a second catalog: a rack with a dress, two tops of    *)
(* which one matches the celebrity outfit, and brands in several spellings *)

Rack ==
  << Item("k1", "Boss", "tops", "blazer", <<"black">>, <<"Formal">>, "",
          "tailored", <<"formal">>, 3000, FALSE),
     Item("n1", "Gap", "tops", "", <<"blue">>, <<>>, "", "", <<>>, 9000, FALSE),
     Pool[3],
     Item("a1", "ZARA", "accessories", "", <<"white">>, <<>>, "", "", <<>>,
          2000, FALSE),
     Item("d1", "Zara", "dresses", "", <<"red">>, <<>>, "floral", "", <<>>,
          5000, FALSE),
     Pool[5] >>

\* the sub-lists of the rack (in rack order) of at most MaxCatalog items
RackList(S) ==
  LET idx == [i \in 1..Cardinality(S) |->
                CHOOSE k \in S : Cardinality({j \in S : j < k}) = i - 1]
  IN [i \in 1..Cardinality(S) |-> Rack[idx[i]]]

RackCatalogs ==
  {RackList(S) : S \in {T \in SUBSET (1..Len(Rack)) : Cardinality(T) <= MaxCatalog}}

\* an anchor that is a dress by its subcategory only
SubDress ==
  Item("d2", "Gap", "onepiece", "Dresses", <<"black">>, <<>>, "", "", <<>>, 0,
       FALSE)

\* the anchors tried on the rack: the jeans of the pool and the two dresses
RackAnchors == {Pool[2], Rack[5], SubDress}

\* a user whose quiz names a favorite brand, as a UserProfile (which has no
\* favorite_brands attribute) and as an object that carries the attribute
BrandUser ==
  User("u3", <<>>, [NoQuiz EXCEPT !.present = TRUE, !.favorite_brands = <<"Zara">>],
       NoFeedback)

BrandUserAttr ==
  [BrandUser EXCEPT !.user_id = "u4", !.has_favorite_brands = TRUE,
                    !.favorite_brands = <<"Zara">>]

\* celebrity X, colors black and white, tags blazer, nothing else
CtxX == Ctx("X", "", "", <<"blazer">>, <<>>, <<"black", "white">>)

\* two garment keywords in the tags, in both orders
CtxJB == Ctx("V", "", "jacket", <<"jacket", "blazer">>, <<>>, <<"black">>)

CtxBJ == Ctx("V", "", "jacket", <<"blazer", "jacket">>, <<>>, <<"black">>)

RackContexts == {CtxA, CtxX, CtxJB, CtxBJ}

FittingInit ==
  /\ catalog \in RackCatalogs
  /\ hashOrder \in HashOrders
  /\ maxRec \in MaxRecChoices
  /\ pc = "idle"
  /\ result = NoResult

FittingNext ==
  \/ pc = "idle" /\ \E i \in 1..Len(catalog), c \in RackContexts : Match(i, c)
  \/ pc = "idle" /\ \E a \in RackAnchors, p \in {EmptyProfile, ProfileLikes},
                        o \in Occasions \cup {"party"}, c \in {NoCtx, CtxA} :
                      BuildOutfit(a, p, o, c)
  \/ pc = "idle" /\ \E u \in {BrandUser, BrandUserAttr}, c \in {NoCtx, CtxA} :
                      Generate(u, c)
  \/ Return

Fitting == FittingInit /\ [][FittingNext]_vars

-----------------------------------------------------------------------------
(* Properties                                                              *)

\* the profile holds a strictly negative disliked_tag / disliked_color /
\* disliked_pattern entry for a tag, a color or the pattern of the item
HasStrictDislike(item, profile) ==
  \E k \in DOMAIN profile :
    /\ profile[k] < 0
    /\ \/ /\ k[1] = "disliked_tag"
          /\ k[2] \in {Lower(item.style_tags[i]) : i \in 1..Len(item.style_tags)}
       \/ /\ k[1] = "disliked_color"
          /\ k[2] \in {Lower(item.colors[i]) : i \in 1..Len(item.colors)}
       \/ /\ k[1] = "disliked_pattern"
          /\ item.pattern # ""
          /\ k[2] = Lower(item.pattern)

\* the profile also rewards a tag or a color of the item
HasPositiveMatch(item, profile) ==
  \/ \E i \in 1..Len(item.style_tags) :
       PGet(profile, <<"style", Lower(item.style_tags[i])>>) > 0
  \/ \E i \in 1..Len(item.colors) :
       PGet(profile, <<"color", Lower(item.colors[i])>>) > 0

\* a call of generate has returned a response
Generated == pc = "done" /\ result.op = "generate" /\ ~result.response.raised

\* a call of buildOutfit has returned an outfit
OutfitBuilt ==
  pc = "done" /\ result.op = "outfit" /\ ~result.raised /\ ~result.outfit.none

\* the catalog positions that hold the item recommended under an id, when
\* the id names one catalog item only
RecommendedPositions(id) ==
  IF Cardinality({i \in 1..Len(result.before) : result.before[i].item_id = id}) = 1
  THEN {i \in 1..Len(result.before) : result.before[i].item_id = id}
  ELSE {}

\* the k-th member of the returned outfit: the anchor, then the catalog items
OutfitMember(k) ==
  IF k = 1 THEN result.anchor
  ELSE result.before[FirstById(result.before, result.outfit.items[k])]

\* p2 is in the clash list of p1 or p1 is in the clash list of p2
Clash(p1, p2) ==
  \/ (p1 \in DOMAIN PATTERN_CLASH_RULES /\ p2 \in PATTERN_CLASH_RULES[p1])
  \/ (p2 \in DOMAIN PATTERN_CLASH_RULES /\ p1 \in PATTERN_CLASH_RULES[p2])

\* C1: score returns exactly (0.0, []) for every item for which the profile
\* holds a strictly negative disliked_tag, disliked_color or disliked_pattern
\* entry (keys in lower case), with or without a context
C1_HardVeto ==
  (pc = "done" /\ result.op = "score"
   /\ HasStrictDislike(result.item, result.profile))
  => (~result.raised /\ result.score = 0 /\ result.reasons = <<>>)

\* a vetoed item that the profile also rewards was scored with a context
C1_Witness ==
  /\ pc = "done" /\ result.op = "score"
  /\ result.ctx.present
  /\ HasStrictDislike(result.item, result.profile)
  /\ HasPositiveMatch(result.item, result.profile)
  /\ result.score = 0

\* C2: the item recommendations of generate hold no item id twice and no id
\* of an item of the user's closet, also for catalogs that repeat an id
C2_NoDuplicateNoOwned ==
  Generated =>
    /\ \A i, j \in 1..Len(result.response.recommended_items) :
         i # j => result.response.recommended_items[i].item_id
                  # result.response.recommended_items[j].item_id
    /\ \A i \in 1..Len(result.response.recommended_items) :
         \A c \in 1..Len(result.user.closet_items) :
           result.response.recommended_items[i].item_id
           # result.user.closet_items[c].item_id

\* generate recommended two items or more out of a catalog that repeats an id
C2_Witness ==
  /\ Generated
  /\ \E i, j \in 1..Len(result.before) :
       i # j /\ result.before[i].item_id = result.before[j].item_id
  /\ Len(result.response.recommended_items) >= 2

\* C3: generate lists no item that the scorer vetoes under the profile of the
\* user
C3_NoVetoedRecommended ==
  Generated =>
    \A r \in 1..Len(result.response.recommended_items) :
      \A i \in RecommendedPositions(result.response.recommended_items[r].item_id) :
        ~HasStrictDislike(result.before[i],
                          generate_user_style_profile(result.user))

\* C4: generate raises no error, whatever the closet and the catalog
C4_NeverRaises ==
  (pc = "done" /\ result.op = "generate" /\ ~result.ctx.present)
  => ~result.response.raised

\* C5: a second call of generate with the same user, catalog, context and
\* social proof context returns the same items and the same outfits, ids
\* included
C5_Deterministic ==
  [][(result.op = "generate" /\ result'.op = "generate")
     => result'.response = result.response]_vars

\* generate was called twice with the same inputs and recommended items
C5_Witness ==
  /\ Generated
  /\ result.calls = 2
  /\ Len(result.response.recommended_items) >= 2

\* C6: no operation changes a catalog item
C6_NoMutation == [][catalog' = catalog]_vars

\* C7: buildOutfit returns none or an outfit of at least 3 ids, the first of
\* which is the id of the anchor
C7_OutfitShape ==
  (pc = "done" /\ result.op = "outfit" /\ ~result.raised)
  => \/ result.outfit.none
     \/ /\ Len(result.outfit.items) >= 3
        /\ result.outfit.items[1] = result.anchor.item_id

\* buildOutfit returned an outfit, under a context, for a formal occasion
C7_Witness ==
  /\ OutfitBuilt
  /\ result.ctx.present
  /\ result.occasion = "formal"

\* C8: every member of a returned outfit is color-compatible with the anchor
\* and with every member added before it
C8_ColorCompatible ==
  OutfitBuilt =>
    \A k \in 2..Len(result.outfit.items) : \A j \in 1..(k - 1) :
      are_colors_compatible(OutfitMember(j).colors, OutfitMember(k).colors)

\* C9: no two members of a returned outfit have clashing patterns, here for
\* the anchors that are items of the catalog
C9_NoPatternClash ==
  (OutfitBuilt /\ result.anchor \in Range(result.before)) =>
    \A k \in 2..Len(result.outfit.items) : \A j \in 1..(k - 1) :
      ~Clash(Lower(OutfitMember(j).pattern), Lower(OutfitMember(k).pattern))

\* C10: under a context, a recommended item whose match exceeds the
\* attribution threshold carries an attribution that names the celebrity
C10_Attribution ==
  (Generated /\ result.ctx.present) =>
    \A r \in 1..Len(result.response.recommended_items) :
      \A i \in RecommendedPositions(result.response.recommended_items[r].item_id) :
        calculate_social_proof_match(result.before[i], result.ctx) > SPM_THRESHOLD
        => /\ result.response.recommended_items[r].social_proof_match.has
           /\ result.response.recommended_items[r].social_proof_match.celebrity
              = result.ctx.celebrity

\* a call of score with a context has returned
ScoredWithCtx ==
  pc = "done" /\ result.op = "score" /\ result.ctx.present /\ ~result.raised

\* the attribution the scored item carries after the call
AttributionAfter == catalog[result.index].social_proof_match

\* C11: after score, an item whose match under the context is 0.5 or lower
\* carries no attribution that names the celebrity of the context
C11_AttributionThreshold ==
  (ScoredWithCtx
   /\ calculate_social_proof_match(result.item, result.ctx) <= Fx(5))
  => ~(AttributionAfter.has
       /\ AttributionAfter.celebrity = result.ctx.celebrity)

\* C12: after score found a positive match under the context, the attribution
\* of the item names the celebrity and the match score of that context,
\* whatever contexts the item was scored with before
C12_AnnotationCurrent ==
  (ScoredWithCtx
   /\ ~HasStrictDislike(result.item, result.profile)
   /\ calculate_social_proof_match(result.item, result.ctx) > 0)
  => /\ AttributionAfter.has
     /\ AttributionAfter.celebrity = result.ctx.celebrity
     /\ AttributionAfter.match_score
        = calculate_social_proof_match(result.item, result.ctx)

\* C13: match returns 0 when the weighted sum of the five components is below
\* 0.4 and the weighted sum itself when it is 0.4 or more
C13_MatchClamp ==
  (pc = "done" /\ result.op = "match" /\ ~result.raised)
  => result.score = IF SPWeighted(result.item, result.ctx) < Fx(4) THEN 0
                    ELSE SPWeighted(result.item, result.ctx)

\* the total of the weights that the final weighted sum applies
AppliedWeight(ctx) ==
  SumSeq([i \in 1..Len(score_components) |->
            ComponentWeight(score_components[i], ctx)])

\* C14: the weights of the components of score's final weighted sum add up
\* to 1.0, with the pattern component alone and with pattern and social proof
C14_WeightsSumToOne ==
  (pc = "done" /\ result.op = "score" /\ ~result.raised)
  => AppliedWeight(result.ctx) = SCALE

\* a call of score has returned its pair
Scored == pc = "done" /\ result.op = "score" /\ ~result.raised

\* the returned reasons hold no reason twice
ReasonsUnique ==
  \A i, j \in 1..Len(result.reasons) :
    i # j => result.reasons[i] # result.reasons[j]

\* every social proof reason comes before every other reason
ReasonsSocialFirst ==
  \A i, j \in 1..Len(result.reasons) :
    (result.reasons[i][1] = "inspired" /\ result.reasons[j][1] # "inspired")
    => i < j

\* C15: the reasons returned by score hold no reason twice, list the social
\* proof reasons first, and are at most 4 with a context and at most 3
\* without one
C15_Reasons ==
  Scored =>
    /\ ReasonsUnique
    /\ ReasonsSocialFirst
    /\ Len(result.reasons) <= (IF result.ctx.present THEN 4 ELSE 3)

\* C16: in the combined profile a feedback key that starts with disliked_ is
\* exactly -1.0, whatever the quiz and the closet hold for it; every other
\* key is 0.5 * quiz + 0.3 * closet + 0.2 * feedback, absent keys counting 0
C16_Combine ==
  (pc = "done" /\ result.op = "combine") =>
    \A k \in DOMAIN result.combined :
      result.combined[k] =
        IF k \in DOMAIN result.feedback /\ IsDislikedKey(k)
        THEN 0 - SCALE
        ELSE Mul(Fx(5), PGet(result.quiz, k)) + Mul(Fx(3), PGet(result.closet, k))
             + Mul(Fx(2), PGet(result.feedback, k))

\* a disliked key of the feedback, to which the quiz and the closet give
\* positive weights, was combined to -1.0
C16_Witness ==
  /\ pc = "done" /\ result.op = "combine"
  /\ \E k \in DOMAIN result.feedback :
       /\ IsDislikedKey(k)
       /\ PGet(result.quiz, k) > 0 /\ PGet(result.closet, k) > 0
       /\ result.feedback[k] > 0
       /\ result.combined[k] = 0 - SCALE

\* the sum of the weights of a profile
RECURSIVE SumOver(_, _)
SumOver(f, S) ==
  IF S = {} THEN 0
  ELSE LET k == CHOOSE x \in S : TRUE IN f[k] + SumOver(f, S \ {k})

\* some field of the quiz results is answered
QuizAttributeSet(quiz) ==
  \/ quiz.overall_style # <<>> \/ quiz.priorities # <<>>
  \/ quiz.color_palette # <<>> \/ quiz.pattern_preference # ""
  \/ quiz.preferred_patterns # <<>> \/ quiz.top_fit # <<>>
  \/ quiz.bottom_fit # <<>> \/ quiz.occasion_preferences # <<>>
  \/ quiz.favorite_brands # <<>> \/ quiz.budget_range # ""
  \/ quiz.sustainability_priority \/ quiz.secondhand_interest
  \/ quiz.seasonal_preference # ""

\* C17: when at least one quiz attribute is set, the weights of the quiz
\* sub-profile sum to 1.0 (up to the rounding of the n divisions)
C17_QuizWeightsSum ==
  (pc = "done" /\ result.op = "quiz" /\ QuizAttributeSet(result.quiz)) =>
    /\ SumOver(result.profile, DOMAIN result.profile) <= SCALE
    /\ SCALE - SumOver(result.profile, DOMAIN result.profile)
       < Cardinality(DOMAIN result.profile)

\* C18: colorsCompatible(A, B) equals colorsCompatible(B, A)
C18_ColorsSymmetric ==
  (pc = "done" /\ result.op = "colors") =>
    result.compatible = are_colors_compatible(result.colors2, result.colors1)

\* two lists without a neutral color, the second holding a color that the
\* first lacks, were found compatible
C18_Witness ==
  /\ pc = "done" /\ result.op = "colors"
  /\ result.compatible
  /\ Range(LowerAll(result.colors1 \o result.colors2)) \cap neutral_colors = {}
  /\ Range(result.colors2) \ Range(result.colors1) # {}
  /\ "Red" \in Range(result.colors1)

\* C19: patternsCompatible(null, null) is (true, 0.7) and
\* patternsCompatible(X, "solid") is (true, 1.0) for every X, "solid" and a
\* missing pattern included
C19_SolidAndMissing ==
  (pc = "done" /\ result.op = "patterns") =>
    /\ (result.pattern1 = "" /\ result.pattern2 = "")
       => (result.value.ok /\ result.value.score = Fx(7))
    /\ result.pattern2 = "solid"
       => (result.value.ok /\ result.value.score = Fx(10))

\* C20: two distinct patterns one of which is listed as a clash of the other
\* are incompatible with score 0.0, in both orders
C20_ClashBothOrders ==
  (pc = "done" /\ result.op = "patterns"
   /\ Lower(result.pattern1) # Lower(result.pattern2)
   /\ Clash(Lower(result.pattern1), Lower(result.pattern2)))
  => (~result.value.ok /\ result.value.score = 0)

\* a pair was checked whose clash is listed under the second pattern only
C20_Witness ==
  /\ pc = "done" /\ result.op = "patterns"
  /\ Lower(result.pattern2) \in DOMAIN PATTERN_CLASH_RULES
  /\ Lower(result.pattern1) \in PATTERN_CLASH_RULES[Lower(result.pattern2)]
  /\ ~(Lower(result.pattern1) \in DOMAIN PATTERN_CLASH_RULES
       /\ Lower(result.pattern2) \in PATTERN_CLASH_RULES[Lower(result.pattern1)])
  /\ ~result.value.ok

\* the ids of a sequence of items
IdsOf(items) == {items[i].item_id : i \in 1..Len(items)}

\* the (item, score) pairs generate ranks in the call that returned
GeneratedScored ==
  ScoreAll(FilterOwned(result.user, result.before),
           generate_user_style_profile(result.user))

\* the three buckets after the closet bucket, concatenated
PickedBuckets(user, scored, ctx, total) ==
  SocialBucket(scored, ctx, total) \o TrendingBucket(scored, total)
  \o SimilarBrandBucket(user, scored, total)

\* the priority of the bucket that first contributes an id: 1 closet-affinity
\* (empty in every call that returns), 2 social-proof, 3 trending,
\* 4 brand-affinity, 5 best-guess, 6 backfilled
BucketPriority(id, user, scored, ctx, total) ==
  IF id \in IdsOf(SocialBucket(scored, ctx, total)) THEN 2
  ELSE IF id \in IdsOf(TrendingBucket(scored, total)) THEN 3
  ELSE IF id \in IdsOf(SimilarBrandBucket(user, scored, total)) THEN 4
  ELSE IF id \in IdsOf(BestGuessBucket(PickedBuckets(user, scored, ctx, total),
                                       RankBy(scored, Len(scored)), total))
  THEN 5
  ELSE 6

\* the priorities of the recommended items, in the order returned
PrioritiesOf(recs, user, scored, ctx, total) ==
  [i \in 1..Len(recs) |-> BucketPriority(recs[i].item_id, user, scored, ctx, total)]

\* a sequence of numbers that never decreases
NonDecreasing(s) == \A i, j \in 1..Len(s) : i < j => s[i] <= s[j]

\* C21: the recommended items of a response number at most
\* MAX_RECOMMENDATIONS, and they are ordered by bucket priority: an item first
\* contributed by an earlier bucket precedes every item first contributed by
\* a later bucket or by the backfill
C21_BoundedBucketOrder ==
  Generated =>
    /\ Len(result.response.recommended_items) <= maxRec
    /\ NonDecreasing(PrioritiesOf(result.response.recommended_items, result.user,
                                  GeneratedScored, result.ctx, maxRec))

\* a response cut to the target count whose first item comes from the
\* social-proof bucket and whose last item from a later bucket
C21_Witness ==
  /\ Generated
  /\ Len(result.response.recommended_items) = maxRec
  /\ Len(GeneratedScored) > maxRec
  /\ PrioritiesOf(result.response.recommended_items, result.user,
                  GeneratedScored, result.ctx, maxRec)[1] = 2
  /\ PrioritiesOf(result.response.recommended_items, result.user,
                  GeneratedScored, result.ctx, maxRec)[maxRec] > 2

\* a call of generate on an empty catalog has ended
GeneratedOnEmpty == pc = "done" /\ result.op = "generate" /\ result.before = <<>>

\* C22: for any user, with or without closet, quiz or feedback, and an empty
\* catalog, generate raises no error and returns a response that carries the
\* user's id, no item recommendation and no outfit
C22_EmptyCatalog ==
  GeneratedOnEmpty =>
    /\ ~result.response.raised
    /\ result.response.user_id = result.user.user_id
    /\ result.response.recommended_items = <<>>
    /\ result.response.recommended_outfits = <<>>

\* generate has returned on an empty catalog for a user with a closet and a
\* context that makes the matcher fail on any item
C22_Witness ==
  /\ GeneratedOnEmpty
  /\ result.user.closet_items # <<>>
  /\ result.ctx = CtxB
  /\ ~result.response.raised

\* the catalog items whose category is adjacent to the anchor's category in
\* the adjacency table, whatever the subcategories
AdjacentByCategory(anchor, all_items) ==
  SelectSeq(all_items,
            LAMBDA c : /\ Lower(anchor.category) \in DOMAIN complementary_categories
                       /\ Lower(c.category) \in
                            complementary_categories[Lower(anchor.category)])

\* a call of findComplementary has returned
ComplementaryFound == pc = "done" /\ result.op = "complementary"

\* C23: findComplementary returns the ids of the (at most limit) items of
\* highest adjusted score among all the catalog items whose category is
\* adjacent to the anchor's category, whatever their subcategory, and never
\* the anchor's own id
C23_ComplementaryByCategory ==
  ComplementaryFound =>
    /\ result.ids = TopIds(ScoreCandidates(result.anchor,
                                           AdjacentByCategory(result.anchor, catalog),
                                           result.profile),
                           result.limit)
    /\ \A k \in 1..Len(result.ids) : result.ids[k] # result.anchor.item_id

\* the outfit the call that returned would have built without a context
WithoutContext ==
  generate_outfit_recommendation(result.anchor, result.before, result.profile,
                                 result.occasion, NoCtx, hashOrder, NoUuid).outfit

\* C24: for the same anchor, catalog, profile and occasion, whenever
\* buildOutfit returns an outfit both with and without a social proof
\* context, the score of the outfit built with the context is at least the
\* score of the outfit built without it
C24_ContextNeverLowers ==
  (OutfitBuilt /\ result.ctx.present /\ ~WithoutContext.none) =>
    result.outfit.score >= WithoutContext.score

\* a call of match has ended
Matched == pc = "done" /\ result.op = "match"

\* C25: against the context with celebrity X, colors black and white and the
\* tag blazer (no description, no patterns), match returns more than 0.7 for
\* the black blazer and exactly 0 for the red floral dress
C25_BlazerAndDress ==
  (Matched /\ result.ctx = CtxX) =>
    /\ ~result.raised
    /\ (result.item.item_id = Rack[6].item_id => result.score > Fx(7))
    /\ (result.item.item_id = Rack[5].item_id => result.score = 0)

\* the distinct ids of the catalog items the user does not own
DistinctIds(user, available_items) == IdsOf(FilterOwned(user, available_items))

C27_MatcherNeverRaises ==
  (Matched /\ result.ctx.celebrity # "") => ~result.raised

\* some garment keyword found in the tags equals the item's category or
\* subcategory
ExactGarmentInTags(item, sp) ==
  \E k \in 1..Len(GarmentTypes(sp.outfit_tags)) :
    \/ GarmentTypes(sp.outfit_tags)[k] = Lower(item.category)
    \/ GarmentTypes(sp.outfit_tags)[k] = Lower(item.subcategory)

\* C28: whenever some garment keyword found in the context's tags equals the
\* item's category or subcategory, the garment component is 1.0, whatever
\* other garment keywords the tags hold and in whatever order
C28_ExactGarment ==
  (Matched /\ ~result.raised /\ ExactGarmentInTags(result.item, result.ctx)) =>
    result.garment = Fx(10)

\* the favorite brand strings of the user: the quiz answer
QuizFavorites(user) ==
  IF user.style_quiz.present THEN Range(user.style_quiz.favorite_brands) ELSE {}

\* the brand, compared case-insensitively, contains or is contained in a
\* favorite brand; an equal brand contains it
BrandAffine(item, favorites) ==
  \E b \in favorites :
    Substr(Lower(b), Lower(item.brand)) \/ Substr(Lower(item.brand), Lower(b))

\* C29: the brand-affinity bucket holds the highest-scoring (up to the bucket
\* size) non-closet catalog items whose brand, compared case-insensitively,
\* contains or is contained in a favorite brand of the user, the items of a
\* brand equal to a favorite brand included
C29_BrandBucket ==
  Generated =>
    SimilarBrandBucket(result.user, GeneratedScored, maxRec)
      = RankBy(SelectSeq(GeneratedScored,
                         LAMBDA p : BrandAffine(p[1], QuizFavorites(result.user))),
               BucketSize(maxRec))

\* a call of buildOutfit has ended for a dress anchor on an occasion other
\* than formal, business or date night
DressOnCasual ==
  /\ pc = "done" /\ result.op = "outfit"
  /\ "dresses" \in ItemCategories(result.anchor)
  /\ Lower(result.occasion) \notin {"formal", "business", "date night"}

\* C30: for an anchor whose category or subcategory is dresses and an
\* occasion other than formal, business or date night, buildOutfit returns
\* none, whatever the catalog and the profile
C30_DressNeedsFormal == DressOnCasual => result.outfit.none

\* the dress by subcategory, on a casual occasion, with shoes and an
\* accessory in the catalog
C30_Witness ==
  /\ DressOnCasual
  /\ result.anchor = SubDress
  /\ \E i, j \in 1..Len(result.before) :
       /\ Lower(result.before[i].category) = "shoes"
       /\ Lower(result.before[j].category) = "accessories"
  /\ result.outfit.none
====
